---------------------------- MODULE Spec2Model ----------------------------
(***************************************************************************)
(* Model of digital_ocean/auto-deploy.py: the reconciliation loop of       *)
(* TailscaleExitNodeManager (run, _check_existing_nodes,                   *)
(* _cleanup_failed_nodes, _provision_nodes, _provision_single_node,        *)
(* _create_droplet, _wait_for_http_ready, _get_node_status,                *)
(* _get_status_via_http, _save_exit_nodes), DigitalOceanClient's droplet  *)
(* cache and CloudInitScriptGenerator.                                     *)
(*                                                                         *)
(* The specifications share the definitions of the code:                   *)
(*   Spec          the manager's main loop with its provisioning workers;  *)
(*   SpecFair      the same loop from fewer initial states, with weak      *)
(*                 fairness of the program's steps;                        *)
(*   SpecProvision the first cycle from an empty fleet, its one call of    *)
(*                 _provision_single_node over every combination of        *)
(*                 outcomes of the calls it makes;                         *)
(*   SpecBatch     the first cycle from an empty fleet with batches of     *)
(*                 1..MaxDroplets calls of _provision_single_node;         *)
(*   SpecLock      the cycle with the critical sections of self.lock       *)
(*                 taken apart into acquire, mutate and release;           *)
(*   SpecRestart   main(): a process persists its fleet and stops, the     *)
(*                 next one builds its Config, initialises the provider's  *)
(*                 resources and loads the state file;                     *)
(*   SpecProbe     one call of _get_node_status over every address and     *)
(*                 every outcome of the prober's requests;                 *)
(*   SpecGenerator CloudInitScriptGenerator: construction over a shells    *)
(*                 directory and one call of generate_tailscale_script.    *)
(***************************************************************************)
EXTENDS Integers, Sequences, FiniteSets, TLC

VARIABLES
    config,              \* Config: target_nodes, max_nodes, health_check_interval
    exit_nodes,          \* self.exit_nodes: sequence of ExitNodeInfo
    exit_nodes_file,     \* content of exit_nodes.json
    shutdown_requested,  \* self.shutdown_requested
    pc,                  \* position of the main thread in run()
    now,                 \* wall clock, seconds
    sleep_left,          \* iterations left of the inter-cycle sleep loop
    provider,            \* DigitalOcean: the ids of the droplets that exist
    next_id,             \* next droplet id DigitalOcean assigns
    droplets_cache,      \* DigitalOceanClient._droplets_cache / _cache_time
    tasks,               \* futures of _provision_nodes: "queued" | "running" | "done"
    successful_nodes,    \* _provision_nodes' successful_nodes
    cycle,               \* number of cycles started
    hist,                \* what the current cycle has done so far
    attempt_in,          \* SpecProvision: outcomes fed to _provision_single_node
    attempt_out,         \* trace of the last finished _provision_single_node
    lock,                \* self.lock: who holds it
    call                 \* SpecProbe, SpecGenerator: the call made, and what it did

vars == <<config, exit_nodes, exit_nodes_file, shutdown_requested, pc, now,
          sleep_left, provider, next_id, droplets_cache, tasks,
          successful_nodes, cycle, hist, attempt_in, attempt_out, lock,
          call>>

----------------------------------------------------------------------------
(* Bounds of the model *)

MaxDroplets == 4        \* droplet ids the provider hands out
MaxCycles == 2          \* cycles of run() that are started
MaxInitNodes == 2       \* entries of the state file loaded at startup
MaxTargetNodes == 2     \* largest TARGET_EXIT_NODES tried
MaxInterval == 1        \* HEALTH_CHECK_INTERVAL tried (seconds)

(* Program constants *)

DefaultMaxNodes == 3        \* Config.max_nodes
CacheTtlSeconds == 60       \* DigitalOceanClient.cache_ttl_seconds
CreateStopAfter == 3        \* _create_droplet: stop_after_attempt(3)
CreateWaitMin == 5          \* _create_droplet: wait_exponential(min=5)
CreateWaitMax == 60         \* _create_droplet: wait_exponential(max=60)
ReadyStopAfter == 10        \* _wait_for_http_ready: stop_after_attempt(10)
ReadyWaitFixed == 30        \* _wait_for_http_ready: wait_fixed(30)
PoolMaxWorkers == 3         \* _provision_nodes: min(count, 3)
ErrorPause == 60            \* run: time.sleep(60) after an unhandled error

Max(a, b) == IF a >= b THEN a ELSE b
Min(a, b) == IF a <= b THEN a ELSE b

RECURSIVE Pow2(_)
Pow2(n) == IF n <= 0 THEN 1 ELSE 2 * Pow2(n - 1)

----------------------------------------------------------------------------
(* Values *)

None == <<"None">>              \* Python's None, where a string is expected
Unlocked == "unlocked"          \* threading.Lock(): nobody holds it
MainThread == "MainThread"      \* the thread that runs run()
EmptyStr == <<>>                \* ""
Unknown == <<"unknown">>        \* the literal "unknown"
Addr == <<"100.64.0.5">>        \* an overlay address
WS == {" ", "\n"}               \* whitespace characters
NoCall == [op |-> "-"]          \* no call is followed

\* str.strip(): leading and trailing whitespace removed
RECURSIVE LStrip(_)
LStrip(s) == IF s # <<>> /\ Head(s) \in WS THEN LStrip(Tail(s)) ELSE s
RECURSIVE RStrip(_)
RStrip(s) ==
    IF s # <<>> /\ s[Len(s)] \in WS THEN RStrip(SubSeq(s, 1, Len(s) - 1)) ELSE s
\* Variant: only the leading whitespace is removed
StripLeading(s) == LStrip(s)
Strip(s) == RStrip(LStrip(s))

\* str(droplet.id): the decimal rendering of an id
Str(id) == <<"str", id>>

\* droplet.name as _create_droplet builds it; droplet.ip_address
DropletName(t) == <<"tailscale-exit", "fra1", t>>
DropletIp(id) == <<"ip", id>>
Region == "fra1"


----------------------------------------------------------------------------
(* The readiness prober: _get_status_via_http and _get_node_status *)

\* Outcomes of one HTTP request of the prober
SetupOutcomes == {"200", "non200", "RequestException", "Exception"}
TsIpOutcomes == {"200", "non200", "RequestException"}
TsStatusOutcomes == {"200", "non200", "RequestException", "ValueError"}
\* Bodies /tailscale-ip.txt answers with
TsTexts == {Addr, <<" ", "100.64.0.5", "\n">>, EmptyStr}
\* droplet.ip_address: a well-formed address, None, or text that is no address
IpKinds == {"valid", "none", "invalid"}

HttpOutcomes ==
    [setup : SetupOutcomes \ {"200"}, ts_ip : {"-"}, ts_text : {EmptyStr},
     ts_status : {"-"}]
    \cup [setup : {"200"}, ts_ip : {"RequestException"}, ts_text : {EmptyStr},
          ts_status : {"-"}]
    \cup [setup : {"200"}, ts_ip : {"non200"}, ts_text : {EmptyStr},
          ts_status : TsStatusOutcomes]
    \cup [setup : {"200"}, ts_ip : {"200"}, ts_text : TsTexts,
          ts_status : TsStatusOutcomes]

\* dict.get(key, default) on the dicts the prober builds
DictGet(d, key, default) == IF key \in d.keys THEN d[key] ELSE default

NotReady == [raised |-> "none", keys |-> {"is_ready"}, is_ready |-> FALSE,
             tailscale_ip |-> None]

GetStatusViaHttp(h) ==
    IF h.setup = "Exception"
    THEN [NotReady EXCEPT !.raised = "Exception"]
    ELSE IF h.setup = "RequestException" THEN NotReady
    ELSE IF h.setup # "200" THEN NotReady
    ELSE IF h.ts_ip = "RequestException" THEN NotReady
    ELSE IF h.ts_status = "RequestException" THEN NotReady
    ELSE IF h.ts_status = "ValueError"
    THEN [NotReady EXCEPT !.raised = "ValueError"]
    ELSE [raised |-> "none",
          keys |-> {"is_ready", "tailscale_ip", "tailscale_status"},
          is_ready |-> TRUE,
          tailscale_ip |-> IF h.ts_ip = "200" THEN Strip(h.ts_text) ELSE EmptyStr]

NoStatus == [is_none |-> TRUE, keys |-> {}, is_reachable |-> FALSE,
             tailscale_ip |-> None]

GetNodeStatus(ipkind, h) ==
    IF ipkind = "none" THEN NoStatus
    ELSE IF ipkind = "invalid" THEN NoStatus
    ELSE LET status_info == GetStatusViaHttp(h)
         IN IF status_info.raised # "none" THEN NoStatus
            ELSE [is_none |-> FALSE,
                  keys |-> {"public_ip", "tailscale_ip", "is_reachable",
                            "tailscale_status"},
                  is_reachable |-> DictGet(status_info, "is_ready", FALSE),
                  tailscale_ip |-> DictGet(status_info, "tailscale_ip", None)]

\* "node_status_data and node_status_data.get('is_reachable')"
Reachable(st) == ~st.is_none /\ DictGet(st, "is_reachable", FALSE)

\* "except <classes>": the exceptions modelled are all subclasses of
\* Exception and of nothing else that is named in an except clause
IsInstance(exc, cls) == exc = cls \/ cls = "Exception"
Handled(exc, classes) == \E cls \in classes : IsInstance(exc, cls)

\* Variant: _get_node_status has the "except ValueError" clause only
ExceptValueErrorOnly == {"ValueError"}
\* The except clauses of _get_node_status
NodeStatusExcept == {"ValueError", "Exception"}

\* The exception that leaves _get_node_status, or "none".
\* ipaddress.ip_address() raises ValueError for text that is no address.
GetNodeStatusRaised(ipkind, h) ==
    IF ipkind = "none" THEN "none"
    ELSE LET raised == IF ipkind = "invalid" THEN "ValueError"
                       ELSE GetStatusViaHttp(h).raised
         IN IF raised = "none" \/ Handled(raised, NodeStatusExcept)
            THEN "none" ELSE raised

----------------------------------------------------------------------------
(* _create_droplet under its tenacity.retry decorator *)

\* Outcomes of one run of the body of _create_droplet:
\*   api_error     droplet.create() (or an earlier step) raised: nothing created
\*   action_error  the droplet was created, get_action/wait/get_droplet raised
\*   no_ip         the droplet was created and has no address
\*   ok            the droplet was created and has an address
CreateOutcomes == {"api_error", "action_error", "no_ip", "ok"}

CreatesDroplet(out) == out \in {"action_error", "no_ip", "ok"}
\* Variant: a droplet without address is reported like any other failure
GenericException(out) == "Exception"
CreateException(out) ==
    IF out = "no_ip" THEN "DropletCreationError" ELSE "Exception"

\* tenacity.wait_exponential(multiplier=1, min=5, max=60) after attempt n
WaitExponential(n) == Max(CreateWaitMin, Min(Pow2(n - 1), CreateWaitMax))

\* What each run of the body would meet, were it made
CreateSeqs == [1..CreateStopAfter -> CreateOutcomes]

RECURSIVE CreateLoop(_, _, _, _, _, _)
CreateLoop(cs, n, id, created, excs, sleeps) ==
    LET out == cs[n]
        id2 == IF CreatesDroplet(out) THEN id + 1 ELSE id
        created2 == IF CreatesDroplet(out) THEN Append(created, id) ELSE created
    IN IF out = "ok"
       THEN [result |-> "ok", droplet |-> id, attempts |-> n,
             created |-> created2, excs |-> excs, sleeps |-> sleeps]
       ELSE IF n >= CreateStopAfter
       THEN [result |-> "RetryError", droplet |-> 0, attempts |-> n,
             created |-> created2,
             excs |-> Append(excs, CreateException(out)), sleeps |-> sleeps]
       ELSE CreateLoop(cs, n + 1, id2, created2,
                       Append(excs, CreateException(out)),
                       Append(sleeps, WaitExponential(n)))

\* cs: outcome of each attempt; id: the id the provider assigns next
CreateDroplet(cs, id) == CreateLoop(cs, 1, id, <<>>, <<>>, <<>>)

----------------------------------------------------------------------------
(* _wait_for_http_ready under its tenacity.retry decorator *)

ProbeOutcomes == {"200", "non200", "RequestException", "Exception"}
ProbeFailures == {"non200", "RequestException"}

\* What each probe would meet, were it made: k failures of one kind, then
\* success or an exception that is no RequestException
ProbeSeqs ==
    {[i \in 1..ReadyStopAfter |-> IF i <= k THEN f ELSE last] :
        f \in ProbeFailures, last \in {"200", "Exception"},
        k \in {0, 1, ReadyStopAfter - 1, ReadyStopAfter}}

RECURSIVE ReadyLoop(_, _, _)
ReadyLoop(ps, n, sleeps) ==
    LET out == ps[n]
    IN IF out = "200"
       THEN [result |-> "ok", probes |-> n, sleeps |-> sleeps]
       ELSE IF out = "Exception"
       THEN [result |-> "Exception", probes |-> n, sleeps |-> sleeps]
       ELSE IF n >= ReadyStopAfter
       THEN [result |-> "RetryError", probes |-> n, sleeps |-> sleeps]
       ELSE ReadyLoop(ps, n + 1, Append(sleeps, ReadyWaitFixed))

WaitForHttpReady(ps) == ReadyLoop(ps, 1, <<>>)

----------------------------------------------------------------------------
(* _provision_single_node *)

NoHttp == [setup |-> "-", ts_ip |-> "-", ts_text |-> EmptyStr, ts_status |-> "-"]
NoNode == [droplet_id |-> Str(0), name |-> DropletName(0),
           public_ip |-> DropletIp(0), tailscale_ip |-> None,
           region |-> "-", status |-> "-", created_at |-> 0,
           last_checked |-> 0]
NoCreate == [result |-> "-", droplet |-> 0, attempts |-> 0, created |-> <<>>,
             excs |-> <<>>, sleeps |-> <<>>]
NoWait == [result |-> "-", probes |-> 0, sleeps |-> <<>>]

\* Variant: a provisioned instance starts with a status of its own
ExitNodeInfoNew(id, status_data, t) ==
    [droplet_id |-> Str(id), name |-> DropletName(t),
     public_ip |-> DropletIp(id),
     tailscale_ip |-> DictGet(status_data, "tailscale_ip", Unknown),
     region |-> Region, status |-> "new",
     created_at |-> t, last_checked |-> t]
\* The ExitNodeInfo _provision_single_node returns
ExitNodeInfo(id, status_data, t) ==
    [droplet_id |-> Str(id), name |-> DropletName(t),
     public_ip |-> DropletIp(id),
     tailscale_ip |-> DictGet(status_data, "tailscale_ip", Unknown),
     region |-> Region, status |-> "healthy",
     created_at |-> t, last_checked |-> t]

\* Variant: the except branch leaves the droplet alone
ProvisionFailedKeepsDroplet(o, c, w, failed_at) ==
    [returned |-> FALSE, node |-> NoNode, raised |-> FALSE,
     failed_at |-> failed_at, create |-> c, wait |-> w,
     destroy_calls |-> <<>>, destroy_raised |-> FALSE]
\* The except branch: destroy the droplet if one was returned, return None.
\* failed_at names the step whose exception was caught.
ProvisionFailed(o, c, w, failed_at) ==
    [returned |-> FALSE, node |-> NoNode, raised |-> FALSE,
     failed_at |-> failed_at, create |-> c, wait |-> w,
     destroy_calls |-> IF c.result = "ok" THEN <<c.droplet>> ELSE <<>>,
     destroy_raised |-> c.result = "ok" /\ o.destroy = "fail"]

\* o: the outcomes of the calls made; id: the id the provider assigns next;
\* t: the clock
ProvisionSingleNode(o, id, t) ==
    LET c == CreateDroplet(o.create, id)
    IN IF c.result # "ok" THEN ProvisionFailed(o, c, NoWait, "create")
       ELSE LET w == WaitForHttpReady(o.probes)
            IN IF w.result # "ok" THEN ProvisionFailed(o, c, w, "wait")
               ELSE LET node_status_data == GetNodeStatus(o.ipkind, o.http)
                    IN IF ~Reachable(node_status_data)
                       THEN ProvisionFailed(o, c, w, "status")
                       ELSE [returned |-> TRUE,
                             node |-> ExitNodeInfo(c.droplet, node_status_data, t),
                             raised |-> FALSE, failed_at |-> "-",
                             create |-> c, wait |-> w,
                             destroy_calls |-> <<>>, destroy_raised |-> FALSE]

NoAttempt == [returned |-> FALSE, node |-> NoNode, raised |-> FALSE,
              failed_at |-> "-", create |-> NoCreate, wait |-> NoWait,
              destroy_calls |-> <<>>, destroy_raised |-> FALSE]

\* Droplets the attempt leaves at the provider: created and not destroyed
Destroyed(o, tr) ==
    IF tr.destroy_calls # <<>> /\ o.destroy = "ok"
    THEN {tr.destroy_calls[1]} ELSE {}
LeftAtProvider(o, tr) ==
    {tr.create.created[i] : i \in 1..Len(tr.create.created)} \ Destroyed(o, tr)

\* Every combination of outcomes the calls of one _provision_single_node can
\* meet; the outcome of a call that is not made is not looked at.
StatusOutcomes ==
    [ipkind : {"valid"}, http : HttpOutcomes]
    \cup [ipkind : {"invalid"}, http : {NoHttp}]
AttemptOutcomes ==
    {[create |-> cs, probes |-> ps, ipkind |-> s.ipkind, http |-> s.http,
      destroy |-> d] :
        cs \in CreateSeqs, ps \in ProbeSeqs, s \in StatusOutcomes,
        d \in {"ok", "fail"}}
NoOutcomes == [create |-> <<>>, probes |-> <<>>, ipkind |-> "-",
               http |-> NoHttp, destroy |-> "-"]

----------------------------------------------------------------------------
(* The state file: ExitNodeInfo.to_dict / from_dict, _load_exit_nodes,       *)
(* _save_exit_nodes                                                          *)

\* datetime.isoformat() and datetime.fromisoformat()
\* Variant: isoformat(timespec="seconds"), of a clock reading that carries
\* microseconds
IsoFormatSeconds(t) == <<"iso", <<t[1], 0>>>>
IsoFormat(t) == <<"iso", t>>
IsIso(x) == Len(x) = 2 /\ x[1] = "iso"
FromIsoFormat(x) == x[2]

ToDict(node) ==
    [node EXCEPT !.created_at = IsoFormat(node.created_at),
                 !.last_checked = IsoFormat(node.last_checked)]
FromDict(data) ==
    [data EXCEPT !.created_at = FromIsoFormat(data.created_at),
                 !.last_checked = FromIsoFormat(data.last_checked)]
\* from_dict(data) raises nothing: every key is there (else KeyError) and
\* both timestamps are ISO texts (else ValueError or TypeError)
DictKeys ==
    {"droplet_id", "name", "public_ip", "tailscale_ip", "region", "status",
     "created_at", "last_checked"}
Parses(data) ==
    /\ DictKeys \subseteq DOMAIN data
    /\ IsIso(data.created_at)
    /\ IsIso(data.last_checked)

MissingFile == [kind |-> "missing", data |-> <<>>]
CorruptFile == [kind |-> "corrupt", data |-> <<>>]
\* Valid JSON that is an object, not a list: iterating it gives its keys
ObjectFile == [kind |-> "json_object", data |-> <<>>]
JsonFile(nodes) ==
    [kind |-> "json", data |-> [i \in 1..Len(nodes) |-> ToDict(nodes[i])]]

\* Variant: the entries that do not parse are skipped
LoadGoodEntries(file) ==
    IF file.kind = "json"
    THEN LET good == SelectSeq(file.data, Parses)
         IN [i \in 1..Len(good) |-> FromDict(good[i])]
    ELSE <<>>
\* data is a list whose entries all parse, or the fleet is empty (the file
\* does not exist, json.load raised, or from_dict raised)
LoadExitNodes(file) ==
    IF file.kind = "json" /\ \A i \in 1..Len(file.data) : Parses(file.data[i])
    THEN [i \in 1..Len(file.data) |-> FromDict(file.data[i])]
    ELSE <<>>

\* outcome: "ok", or "open_fails": open() raised, the exception is logged
\* and the file is left as it was
SaveOutcomes == {"ok", "open_fails"}
\* Variant: the file is not rewritten
SaveNothing(nodes, file, outcome) == file
SaveExitNodes(nodes, file, outcome) ==
    IF outcome = "ok" THEN JsonFile(nodes) ELSE file

----------------------------------------------------------------------------
(* DigitalOceanClient.get_droplets *)

NoCache == [some |-> FALSE, droplets |-> {}, time |-> 0]

\* manager.get_all_droplets(): the droplets that exist
AllDroplets(prov) == prov

NeedsRefresh(cache, force_refresh, t) ==
    force_refresh \/ ~cache.some \/ (t - cache.time) > CacheTtlSeconds

\* fetch: what manager.get_all_droplets() does if it is called: it raises
\* (ok is FALSE) or answers with droplets
FailedFetch == [ok |-> FALSE, droplets |-> {}]
GetDropletsCache(cache, force_refresh, t, fetch) ==
    IF NeedsRefresh(cache, force_refresh, t) /\ fetch.ok
    THEN [some |-> TRUE, droplets |-> fetch.droplets, time |-> t]
    ELSE cache
GetDroplets(cache, force_refresh, t, fetch) ==
    LET c == GetDropletsCache(cache, force_refresh, t, fetch)
    IN IF c.some THEN c.droplets ELSE {}

----------------------------------------------------------------------------
(* _check_existing_nodes *)

Range(f) == {f[i] : i \in DOMAIN f}
\* list.remove(x): the first element equal to x is removed
RECURSIVE RemoveFirst(_, _)
RemoveFirst(f, x) ==
    IF f = <<>> THEN <<>>
    ELSE IF Head(f) = x THEN Tail(f)
    ELSE <<Head(f)>> \o RemoveFirst(Tail(f), x)
RECURSIVE RemoveAll(_, _)
RemoveAll(f, xs) ==
    IF xs = <<>> THEN f ELSE RemoveAll(RemoveFirst(f, Head(xs)), Tail(xs))

\* What the check of one tracked node that is listed meets: an exception, or
\* the status and address of the listed droplet and the prober's answers
HttpAllOk == [setup |-> "200", ts_ip |-> "200", ts_text |-> Addr,
              ts_status |-> "200"]
HttpNoTsIp == [setup |-> "200", ts_ip |-> "non200", ts_text |-> EmptyStr,
               ts_status |-> "200"]
HttpDown == [setup |-> "non200", ts_ip |-> "-", ts_text |-> EmptyStr,
             ts_status |-> "-"]
CheckOutcomes ==
    {[raises |-> TRUE, status |-> "-", ipkind |-> "-", http |-> NoHttp],
     [raises |-> FALSE, status |-> "off", ipkind |-> "-", http |-> NoHttp],
     [raises |-> FALSE, status |-> "active", ipkind |-> "none",
      http |-> NoHttp]}
    \cup [raises : {FALSE}, status : {"active"}, ipkind : {"valid"},
          http : {HttpAllOk, HttpNoTsIp, HttpDown}]

\* Variant: every tracked id is taken to be listed
ListedAlways(listing, droplet_id) == TRUE
\* current_do_droplets = {str(d.id): d for d in get_droplets()}
Listed(listing, droplet_id) == \E id \in listing : Str(id) = droplet_id

\* Variant: the entry of a node that is found is built anew at every check
CheckNodeRebuilds(node, listing, out, t) ==
    IF ~Listed(listing, node.droplet_id)
    THEN [node |-> node, remove |-> TRUE]
    ELSE [node |-> [node EXCEPT
              !.status = IF out.raises THEN "error" ELSE "unhealthy",
              !.name = DropletName(t),
              !.created_at = t,
              !.last_checked = t],
          remove |-> FALSE]
\* The body of the loop for one node: the node as it is left, and whether
\* it is marked for removal from tracking
CheckNode(node, listing, out, t) ==
    IF ~Listed(listing, node.droplet_id)
    THEN [node |-> node, remove |-> TRUE]
    ELSE IF out.raises
    THEN [node |-> [node EXCEPT !.status = "error"], remove |-> FALSE]
    ELSE IF out.status = "active"
    THEN LET node_status_data == GetNodeStatus(out.ipkind, out.http)
         IN IF Reachable(node_status_data)
            THEN [node |-> [node EXCEPT
                      !.status = "healthy",
                      !.tailscale_ip =
                          DictGet(node_status_data, "tailscale_ip", @),
                      !.last_checked = t],
                  remove |-> FALSE]
            ELSE [node |-> [node EXCEPT !.status = "unhealthy",
                                        !.last_checked = t],
                  remove |-> FALSE]
    ELSE [node |-> [node EXCEPT !.status = "unhealthy"], remove |-> FALSE]

\* Variant: an exception ends the pass, the nodes after it are left as they
\* are
CheckedUntilRaise(nodes, listing, outs, t) ==
    [i \in 1..Len(nodes) |->
        IF \E k \in 1..(i - 1) :
              outs[k].raises /\ Listed(listing, nodes[k].droplet_id)
        THEN [node |-> nodes[i], remove |-> FALSE]
        ELSE CheckNode(nodes[i], listing, outs[i], t)]
\* outs[i]: what the check of nodes[i] meets
CheckedNodes(nodes, listing, outs, t) ==
    [i \in 1..Len(nodes) |-> CheckNode(nodes[i], listing, outs[i], t)]
CheckExistingNodes(nodes, listing, outs, t) ==
    LET checked == CheckedNodes(nodes, listing, outs, t)
        after == [i \in 1..Len(nodes) |-> checked[i].node]
        nodes_to_remove_from_tracking ==
            SelectSeq(checked, LAMBDA c : c.remove)
    IN RemoveAll(after,
                 [i \in 1..Len(nodes_to_remove_from_tracking) |->
                     nodes_to_remove_from_tracking[i].node])
\* Variant: every node found in the listing is returned
ListedNodes(nodes, listing, outs, t) ==
    LET checked == CheckedNodes(nodes, listing, outs, t)
        found == SelectSeq(checked, LAMBDA c : ~c.remove)
    IN [i \in 1..Len(found) |-> found[i].node]
\* healthy_nodes, the list _check_existing_nodes returns
HealthyNodes(nodes, listing, outs, t) ==
    LET checked == CheckedNodes(nodes, listing, outs, t)
        passed == SelectSeq(checked, LAMBDA c :
                      ~c.remove /\ c.node.status = "healthy")
    IN [i \in 1..Len(passed) |-> passed[i].node]

----------------------------------------------------------------------------
(* _cleanup_failed_nodes *)

\* id of the droplet a tracked node names
DropletId(node) == node.droplet_id[2]

\* Variant: status error is not cleaned up
OnlyUnhealthy(node) == node.status = "unhealthy"
\* Variant: every node is cleaned up, whatever its status
AnyStatus(node) == TRUE
NeedsCleanup(node) == node.status \in {"unhealthy", "error"}

\* Outcomes of "get_droplet(id); droplet.destroy()" for one node
CleanupOutcomes == {"destroyed", "get_droplet_raises", "destroy_raises"}

\* destroy() is called unless get_droplet raised
DestroyCalled(out) == out # "get_droplet_raises"

\* Variant: the droplets are destroyed and the list is left as it is
CleanupDestroysOnly(nodes) == nodes
\* Variant: the cleanup untracks every node, whatever its status
CleanupUntracksAll(nodes) == <<>>
CleanupFailedNodes(nodes) ==
    RemoveAll(nodes, SelectSeq(nodes, NeedsCleanup))

----------------------------------------------------------------------------
(* run: the provisioning decision *)

HealthyCount(nodes) == Cardinality({i \in 1..Len(nodes) : nodes[i].status = "healthy"})

\* Variant: the shortfall is one too large
NeededOneMore(nodes, cfg) ==
    Max(0, cfg.target_nodes - HealthyCount(nodes) + 1)
Needed(nodes, cfg) == Max(0, cfg.target_nodes - HealthyCount(nodes))

\* Variant: the target is provisioned whatever is tracked
ProvisionTarget(nodes, cfg) == cfg.target_nodes
\* Variant: the fleet is filled up to max_nodes
ProvisionUpToMax(nodes, cfg) == Max(0, cfg.max_nodes - Len(nodes))
\* The count _provision_nodes is called with; 0 when it is not called
ProvisionCount(nodes, cfg) ==
    LET needed == Needed(nodes, cfg)
    IN IF needed > 0
       THEN IF Len(nodes) + needed <= cfg.max_nodes
            THEN needed
            ELSE Max(0, cfg.max_nodes - Len(nodes))
       ELSE 0

----------------------------------------------------------------------------
(* Initial states: Config.__post_init__ passed, __init__ has run *)

DefaultInterval == 300      \* Config.health_check_interval

DefaultTargetNodes == 1     \* Config.target_nodes
DefaultConfig ==
    [target_nodes |-> DefaultTargetNodes, max_nodes |-> DefaultMaxNodes,
     health_check_interval |-> DefaultInterval]
Configs ==
    {DefaultConfig} \cup
    {c \in [target_nodes : 1..MaxTargetNodes,
            max_nodes : 1..Max(MaxTargetNodes, DefaultMaxNodes),
            health_check_interval : {MaxInterval}] :
        /\ ~(c.target_nodes > c.max_nodes)
        /\ c.max_nodes \in {c.target_nodes, DefaultMaxNodes}}

\* An entry of the state file written by an earlier run
InitNode(id) ==
    [droplet_id |-> Str(id), name |-> DropletName(0),
     public_ip |-> DropletIp(id), tailscale_ip |-> Addr,
     region |-> Region, status |-> "healthy",
     created_at |-> 0, last_checked |-> 0]
InitFleets ==
    {[i \in 1..n |-> InitNode(i)] : n \in 0..MaxInitNodes}
InitFiles == {JsonFile(f) : f \in InitFleets}

Ids == 1..MaxDroplets

\* What manager.get_all_droplets() can do: fail, or list the droplets that
\* exist
TrackedIds(nodes) == {nodes[i].droplet_id[2] : i \in 1..Len(nodes)}
Fetches(prov) == {FailedFetch, [ok |-> TRUE, droplets |-> AllDroplets(prov)]}

\* What the current cycle has done so far:
\*   steps                the steps of run() that have finished, in order
\*   tracked_at_start     len(self.exit_nodes) when the cycle started
\*   before_check         self.exit_nodes when the health check started
\*   listing              the droplet ids get_droplets() returned to the check
\*   after_check          self.exit_nodes when the health check returned
\*   outs                 what the check of each entry of before_check met
\*   healthy_nodes        the list the health check returned
\*   healthy_after_check  the entries of after_check with status healthy
\*   lookups_failed       ids for which cleanup's get_droplet raised
\*   destroys             ids for which cleanup called destroy()
\*   count                the count _provision_nodes was called with
\*   attempts, creates    calls of _provision_single_node started; runs of
\*                        the body of _create_droplet
\*   finished, succeeded  calls of _provision_single_node that returned;
\*                        those that returned an instance
\*   save                 "-", or how the cycle's _save_exit_nodes() went
NoHist == [steps |-> <<>>, tracked_at_start |-> 0, before_check |-> <<>>,
           listing |-> {}, after_check |-> <<>>, outs |-> <<>>,
           healthy_nodes |-> <<>>, healthy_after_check |-> 0,
           lookups_failed |-> {}, destroys |-> {}, count |-> 0,
           attempts |-> 0, creates |-> 0, finished |-> 0, succeeded |-> 0,
           save |-> "-"]

Init ==
    /\ lock = Unlocked
    /\ call = NoCall
    /\ config \in Configs
    /\ exit_nodes_file \in InitFiles
    /\ exit_nodes = LoadExitNodes(exit_nodes_file)
    /\ shutdown_requested = FALSE
    /\ pc = "top"
    /\ now = 0
    /\ sleep_left = 0
    /\ provider \in SUBSET (1..Len(exit_nodes))
    /\ next_id = MaxInitNodes + 1
    /\ \E fetch \in Fetches(provider) :
          droplets_cache = GetDropletsCache(NoCache, TRUE, 0, fetch)
    /\ tasks = <<>>
    /\ successful_nodes = <<>>
    /\ cycle = 0
    /\ hist = NoHist
    /\ attempt_in = NoOutcomes
    /\ attempt_out = NoAttempt

----------------------------------------------------------------------------
(* run: one action per step of the loop *)

\* "while not self.shutdown_requested"; the work of a cycle takes time, one
\* second of the clock here
LoopTop ==
    /\ pc = "top"
    /\ IF shutdown_requested
       THEN /\ pc' = "done"
            /\ UNCHANGED <<cycle, now, hist, attempt_out>>
       ELSE /\ cycle < MaxCycles
            /\ pc' = "check"
            /\ cycle' = cycle + 1
            /\ now' = now + 1
            /\ hist' = [NoHist EXCEPT !.tracked_at_start = Len(exit_nodes)]
            /\ attempt_out' = NoAttempt
    /\ UNCHANGED <<call, lock, config, exit_nodes, exit_nodes_file, shutdown_requested,
                   sleep_left, provider, next_id, droplets_cache, tasks,
                   successful_nodes, attempt_in>>

\* Variant: the cleanup is skipped
SkipCleanup == "decide"
\* The step run() goes to after _check_existing_nodes returned
AfterCheck == "cleanup"

\* healthy_nodes = self._check_existing_nodes(). A droplet that no longer
\* exists does not answer the probe, whatever listing the check is served.
CheckStep ==
    /\ pc = "check"
    /\ \E fetch \in Fetches(provider) :
       \E outs \in [1..Len(exit_nodes) -> CheckOutcomes] :
          /\ \A i \in 1..Len(exit_nodes) :
                DropletId(exit_nodes[i]) \notin provider =>
                    ~Reachable(GetNodeStatus(outs[i].ipkind, outs[i].http))
          /\ LET listing == GetDroplets(droplets_cache, FALSE, now, fetch)
                 after == CheckExistingNodes(exit_nodes, listing, outs, now)
             IN /\ droplets_cache' =
                       GetDropletsCache(droplets_cache, FALSE, now, fetch)
                /\ exit_nodes' = after
                /\ hist' = [hist EXCEPT
                      !.steps = Append(@, "check"),
                      !.before_check = exit_nodes,
                      !.listing = listing,
                      !.after_check = after,
                      !.outs = outs,
                      !.healthy_nodes =
                          HealthyNodes(exit_nodes, listing, outs, now),
                      !.healthy_after_check =
                          Cardinality({i \in 1..Len(after) :
                                         after[i].status = "healthy"})]
    /\ pc' = AfterCheck
    /\ UNCHANGED <<call, lock, config, exit_nodes_file, shutdown_requested, now,
                   sleep_left, provider, next_id, tasks, successful_nodes,
                   cycle, attempt_in, attempt_out>>

\* self._cleanup_failed_nodes()
CleanupStep ==
    /\ pc = "cleanup"
    /\ LET failed == {i \in 1..Len(exit_nodes) : NeedsCleanup(exit_nodes[i])}
       IN \E outs \in [failed -> CleanupOutcomes] :
             /\ \A i \in failed :
                   DropletId(exit_nodes[i]) \notin provider
                       => outs[i] = "get_droplet_raises"
             /\ provider' =
                   provider \ {DropletId(exit_nodes[i]) :
                                 i \in {j \in failed : outs[j] = "destroyed"}}
             /\ hist' = [hist EXCEPT
                   !.steps = Append(@, "cleanup"),
                   !.outs = <<>>,
                   !.healthy_nodes = <<>>,
                   !.lookups_failed =
                       {exit_nodes[i].droplet_id :
                          i \in {j \in failed : outs[j] = "get_droplet_raises"}},
                   !.destroys =
                       {exit_nodes[i].droplet_id :
                          i \in {j \in failed : DestroyCalled(outs[j])}}]
    /\ exit_nodes' = CleanupFailedNodes(exit_nodes)
    /\ pc' = "decide"
    /\ UNCHANGED <<call, lock, config, exit_nodes_file, shutdown_requested, now,
                   sleep_left, next_id, droplets_cache, tasks,
                   successful_nodes, cycle, attempt_in, attempt_out>>

\* needed = ...; the branches that call _provision_nodes, which submits
\* count calls of _provision_single_node to the pool. What hist holds of the
\* check and the cleanup is dropped here.
DecideStep ==
    /\ pc = "decide"
    /\ LET count == ProvisionCount(exit_nodes, config)
       IN /\ tasks' = [i \in 1..count |-> "queued"]
          /\ pc' = IF count > 0 THEN "provision" ELSE "save"
          /\ hist' = [hist EXCEPT !.steps = Append(@, "decide"),
                                  !.count = count,
                                  !.before_check = <<>>, !.listing = {},
                                  !.after_check = <<>>,
                                  !.lookups_failed = {}, !.destroys = {}]
    /\ successful_nodes' = <<>>
    /\ UNCHANGED <<call, lock, config, exit_nodes, exit_nodes_file, shutdown_requested,
                   now, sleep_left, provider, next_id, droplets_cache, cycle,
                   attempt_in, attempt_out>>

----------------------------------------------------------------------------
(* _provision_nodes: the pool's workers and the join *)

\* The outcomes the workers of the main loop are run over
LoopOutcomes ==
    {[create |-> <<"api_error", "api_error", "api_error">>, probes |-> <<>>,
      ipkind |-> "-", http |-> NoHttp, destroy |-> "-"],
     [create |-> <<"ok">>, probes |-> [i \in 1..ReadyStopAfter |-> "non200"],
      ipkind |-> "-", http |-> NoHttp, destroy |-> "ok"],
     [create |-> <<"ok">>, probes |-> <<"200">>,
      ipkind |-> "valid", http |-> HttpDown, destroy |-> "fail"],
     [create |-> <<"ok">>, probes |-> <<"200">>,
      ipkind |-> "valid", http |-> HttpAllOk, destroy |-> "-"]}

Running == {i \in 1..Len(tasks) : tasks[i] = "running"}
Queued == {i \in 1..Len(tasks) : tasks[i] = "queued"}

\* Variant: a worker for every submitted call
OneWorkerEach(count) == count
\* ThreadPoolExecutor(max_workers=min(count, 3))
MaxWorkers(count) == Min(count, PoolMaxWorkers)

\* A worker of the pool takes the next submitted call
WorkerStart(i) ==
    /\ pc = "provision"
    /\ i \in Queued
    /\ \A j \in Queued : i <= j
    /\ Cardinality(Running) < MaxWorkers(Len(tasks))
    /\ tasks' = [tasks EXCEPT ![i] = "running"]
    /\ hist' = [hist EXCEPT !.attempts = @ + 1]
    /\ UNCHANGED <<call, lock, config, exit_nodes, exit_nodes_file, shutdown_requested,
                   pc, now, sleep_left, provider, next_id, droplets_cache,
                   successful_nodes, cycle, attempt_in, attempt_out>>

\* The provider after a provisioning attempt: the droplets it created exist,
\* the one it destroyed does not
ProviderAfter(prov, o, tr) ==
    (prov \cup LeftAtProvider(o, tr)) \ Destroyed(o, tr)

\* The call of _provision_single_node runs to its end, meeting one of the
\* given outcomes; the main thread collects its result (as_completed)
WorkerFinishWith(i, outcomes) ==
    /\ pc = "provision"
    /\ i \in Running
    /\ \E o \in outcomes :
          LET tr == ProvisionSingleNode(o, next_id, now)
          IN /\ next_id + Len(tr.create.created) <= MaxDroplets + 1
             /\ next_id' = next_id + Len(tr.create.created)
             /\ provider' = ProviderAfter(provider, o, tr)
             /\ successful_nodes' =
                   IF tr.returned THEN Append(successful_nodes, tr.node)
                   ELSE successful_nodes
             /\ hist' = [hist EXCEPT
                   !.creates = @ + tr.create.attempts,
                   !.finished = @ + 1,
                   !.succeeded = IF tr.returned THEN @ + 1 ELSE @]
             /\ attempt_out' = tr
    /\ tasks' = [tasks EXCEPT ![i] = "done"]
    /\ UNCHANGED <<call, lock, config, exit_nodes, exit_nodes_file, shutdown_requested,
                   pc, now, sleep_left, droplets_cache, cycle, attempt_in>>

WorkerFinish(i) == WorkerFinishWith(i, LoopOutcomes)

\* The step run() goes to after _provision_nodes returned
AfterProvision == "save"

\* Variant: the pool is left as soon as one future has completed
FirstReturned(ts) == \E i \in 1..Len(ts) : ts[i] = "done"
\* as_completed(futures) is used up, and the "with" block of the executor
\* waits for the workers: every submitted call has returned
AllReturned(ts) == \A i \in 1..Len(ts) : ts[i] = "done"

\* Variant: a node is added when its future completes and again at the end
ExtendTwice(nodes, successful) == nodes \o successful \o successful
\* self.exit_nodes.extend(successful_nodes)
Extend(nodes, successful) == nodes \o successful

\* Every future has completed: "self.exit_nodes.extend(successful_nodes)"
ProvisionJoin ==
    /\ pc = "provision"
    /\ AllReturned(tasks)
    /\ exit_nodes' = Extend(exit_nodes, successful_nodes)
    /\ tasks' = <<>>
    /\ successful_nodes' = <<>>
    /\ hist' = [hist EXCEPT !.steps = Append(@, "provision")]
    /\ pc' = AfterProvision
    /\ UNCHANGED <<call, lock, config, exit_nodes_file, shutdown_requested, now,
                   sleep_left, provider, next_id, droplets_cache, cycle,
                   attempt_in, attempt_out>>

\* self._save_exit_nodes(), then the sleep loop is entered
SaveStep ==
    /\ pc = "save"
    /\ \E outcome \in SaveOutcomes :
          /\ exit_nodes_file' =
                SaveExitNodes(exit_nodes, exit_nodes_file, outcome)
          /\ hist' = [NoHist EXCEPT
                !.steps = Append(hist.steps, "save"),
                !.save = IF outcome = "ok" THEN "ok" ELSE "failed"]
    /\ attempt_out' = NoAttempt
    /\ sleep_left' = config.health_check_interval
    /\ pc' = "sleep"
    /\ UNCHANGED <<call, lock, config, exit_nodes, shutdown_requested, now, provider,
                   next_id, droplets_cache, tasks, successful_nodes, cycle,
                   attempt_in>>

\* Variant: the sleep loop does not look at the flag
SleepIgnoresFlag(flag, left) == left = 0
\* The sleep loop ends: "if self.shutdown_requested: break", or the range is
\* used up
SleepOver(flag, left) == flag \/ left = 0

\* "for _ in range(interval): if shutdown_requested: break; time.sleep(1)".
\* The first iteration is a step of its own; the iterations after it in
\* which the flag is not seen set are taken in one step.
SleepPoll ==
    /\ pc = "sleep"
    /\ IF SleepOver(shutdown_requested, sleep_left)
       THEN /\ pc' = "top"
            /\ sleep_left' = 0
            /\ UNCHANGED now
       ELSE \E n \in {IF sleep_left = config.health_check_interval
                       THEN 1 ELSE sleep_left} :
               /\ sleep_left' = sleep_left - n
               /\ now' = now + n
               /\ UNCHANGED pc
    /\ UNCHANGED <<call, lock, config, exit_nodes, exit_nodes_file, shutdown_requested,
                   provider, next_id, droplets_cache, tasks, successful_nodes,
                   cycle, hist, attempt_in, attempt_out>>

\* An exception escapes a step of the cycle: "except Exception"
UnhandledError ==
    /\ pc \in {"check", "cleanup", "decide", "save"}
    /\ pc' = "error"
    /\ hist' = [NoHist EXCEPT !.steps = Append(hist.steps, "error")]
    /\ attempt_out' = NoAttempt
    /\ UNCHANGED <<call, lock, config, exit_nodes, exit_nodes_file, shutdown_requested,
                   now, sleep_left, provider, next_id, droplets_cache, tasks,
                   successful_nodes, cycle, attempt_in>>

\* Variant: the handler leaves the loop
ErrorExits == "done"
\* Where run() goes after the "except Exception" handler: the loop condition
AfterError == "top"

\* time.sleep(60), then the loop condition
ErrorSleep ==
    /\ pc = "error"
    /\ now' = now + ErrorPause
    /\ pc' = AfterError
    /\ UNCHANGED <<call, lock, config, exit_nodes, exit_nodes_file, shutdown_requested,
                   sleep_left, provider, next_id, droplets_cache, tasks,
                   successful_nodes, cycle, hist, attempt_in, attempt_out>>

----------------------------------------------------------------------------
(* The environment *)

\* _signal_handler: SIGINT or SIGTERM is delivered
Signal ==
    /\ pc # "done"
    /\ ~shutdown_requested
    /\ shutdown_requested' = TRUE
    /\ UNCHANGED <<call, lock, config, exit_nodes, exit_nodes_file, pc, now, sleep_left,
                   provider, next_id, droplets_cache, tasks, successful_nodes,
                   cycle, hist, attempt_in, attempt_out>>

\* A droplet is deleted outside the manager. Only the droplets the manager
\* tracks are followed, and only while a cycle is still to come: it never
\* looks at the others.
DropletDeleted(id) ==
    /\ pc = "sleep"
    /\ cycle < MaxCycles
    /\ id \in TrackedIds(exit_nodes)
    /\ id \in provider
    /\ provider' = provider \ {id}
    /\ UNCHANGED <<call, lock, config, exit_nodes, exit_nodes_file, shutdown_requested,
                   pc, now, sleep_left, next_id, droplets_cache, tasks,
                   successful_nodes, cycle, hist, attempt_in, attempt_out>>

Next ==
    \/ LoopTop
    \/ CheckStep
    \/ CleanupStep
    \/ DecideStep
    \/ \E i \in 1..DefaultMaxNodes : WorkerStart(i)
    \/ \E i \in 1..DefaultMaxNodes : WorkerFinish(i)
    \/ ProvisionJoin
    \/ SaveStep
    \/ SleepPoll
    \/ UnhandledError
    \/ ErrorSleep
    \/ Signal
    \/ \E id \in Ids : DropletDeleted(id)

Spec == Init /\ [][Next]_vars

\* The steps of the program itself: the main thread and the pool's workers.
\* An escaping exception, a signal and a deletion at the provider are the
\* environment's.
Program ==
    \/ LoopTop
    \/ CheckStep
    \/ CleanupStep
    \/ DecideStep
    \/ \E i \in 1..DefaultMaxNodes : WorkerStart(i)
    \/ \E i \in 1..DefaultMaxNodes : WorkerFinish(i)
    \/ ProvisionJoin
    \/ SaveStep
    \/ SleepPoll
    \/ ErrorSleep

\* The threads are scheduled and every call the program makes returns (the
\* requests carry timeouts, the retries and the sleeps are bounded), so the
\* program does not stop while it has a step to take.
\* The configurations with the default target and limit (the default
\* interval, and one shorter than the listing cache lives) and the state
\* files of one entry at most are enough for what is checked of the loop's
\* control flow
InitFair ==
    /\ Init
    /\ config.target_nodes = DefaultTargetNodes
    /\ config.max_nodes = DefaultMaxNodes
    /\ Len(exit_nodes) <= DefaultTargetNodes

SpecFair == InitFair /\ [][Next]_vars /\ WF_vars(Program)

-----------------------------------------------------------------------------
(* The first cycle of run() from an empty fleet with a target of up to     *)
(* MaxDroplets nodes: _provision_nodes is called with counts below, at and *)
(* above the size of its pool                                              *)

BatchConfigs ==
    {[target_nodes |-> n, max_nodes |-> Max(n, DefaultMaxNodes),
      health_check_interval |-> DefaultInterval] : n \in 1..MaxDroplets}

InitBatch ==
    /\ lock = Unlocked
    /\ call = NoCall
    /\ config \in BatchConfigs
    /\ exit_nodes_file = JsonFile(<<>>)
    /\ exit_nodes = LoadExitNodes(exit_nodes_file)
    /\ shutdown_requested = FALSE
    /\ pc = "top"
    /\ now = 0
    /\ sleep_left = 0
    /\ provider = {}
    /\ next_id = 1
    /\ \E fetch \in Fetches(provider) :
          droplets_cache = GetDropletsCache(NoCache, TRUE, 0, fetch)
    /\ tasks = <<>>
    /\ successful_nodes = <<>>
    /\ cycle = 0
    /\ hist = NoHist
    /\ attempt_in = NoOutcomes
    /\ attempt_out = NoAttempt

NextBatch ==
    \/ LoopTop
    \/ CheckStep
    \/ CleanupStep
    \/ DecideStep
    \/ \E i \in 1..MaxDroplets : WorkerStart(i)
    \/ \E i \in 1..MaxDroplets : WorkerFinish(i)
    \/ ProvisionJoin

SpecBatch == InitBatch /\ [][NextBatch]_vars

-----------------------------------------------------------------------------
(* The cycle with the three places that add to or remove from               *)
(* self.exit_nodes taken apart: the loop that builds the list of nodes to  *)
(* add or remove, "with self.lock:", the mutation, the end of the with     *)
(* block. (In the actions above each of them is one step.)                 *)

\* The loop of _check_existing_nodes: the nodes get their status, none is
\* removed yet
CheckLoop ==
    /\ pc = "check"
    /\ \E fetch \in Fetches(provider) :
       \E outs \in [1..Len(exit_nodes) -> CheckOutcomes] :
          /\ \A i \in 1..Len(exit_nodes) :
                DropletId(exit_nodes[i]) \notin provider =>
                    ~Reachable(GetNodeStatus(outs[i].ipkind, outs[i].http))
          /\ LET listing == GetDroplets(droplets_cache, FALSE, now, fetch)
                 checked == CheckedNodes(exit_nodes, listing, outs, now)
             IN /\ droplets_cache' =
                       GetDropletsCache(droplets_cache, FALSE, now, fetch)
                /\ exit_nodes' = [i \in 1..Len(checked) |-> checked[i].node]
                /\ hist' = [hist EXCEPT !.before_check = exit_nodes,
                                        !.listing = listing]
    /\ pc' = "check_remove"
    /\ UNCHANGED <<call, lock, config, exit_nodes_file, shutdown_requested, now,
                   sleep_left, provider, next_id, tasks, successful_nodes,
                   cycle, attempt_in, attempt_out>>

\* nodes_to_remove_from_tracking, as the loop of the check left it
NodesToRemoveFromTracking ==
    SelectSeq(exit_nodes, LAMBDA n : ~Listed(hist.listing, n.droplet_id))

\* The loop of _cleanup_failed_nodes: the droplets are destroyed, no node is
\* removed yet
CleanupLoop ==
    /\ pc = "cleanup"
    /\ LET failed == {i \in 1..Len(exit_nodes) : NeedsCleanup(exit_nodes[i])}
       IN \E outs \in [failed -> CleanupOutcomes] :
             /\ \A i \in failed :
                   DropletId(exit_nodes[i]) \notin provider
                       => outs[i] = "get_droplet_raises"
             /\ provider' =
                   provider \ {DropletId(exit_nodes[i]) :
                                 i \in {j \in failed : outs[j] = "destroyed"}}
    /\ pc' = "cleanup_remove"
    /\ UNCHANGED <<call, lock, config, exit_nodes, exit_nodes_file,
                   shutdown_requested, now, sleep_left, next_id,
                   droplets_cache, tasks, successful_nodes, cycle, hist,
                   attempt_in, attempt_out>>

\* nodes_to_permanently_remove, as the loop of the cleanup left it
NodesToPermanentlyRemove == SelectSeq(exit_nodes, NeedsCleanup)

\* as_completed(futures) is used up and the executor is shut down
CollectResults ==
    /\ pc = "provision"
    /\ AllReturned(tasks)
    /\ tasks' = <<>>
    /\ pc' = "extend"
    /\ UNCHANGED <<call, lock, config, exit_nodes, exit_nodes_file,
                   shutdown_requested, now, sleep_left, provider, next_id,
                   droplets_cache, successful_nodes, cycle, hist, attempt_in,
                   attempt_out>>

\* Variant: the block is entered without taking the lock
EnterWithoutLock(at, list, locked, after) ==
    /\ pc = at
    /\ pc' = IF list = <<>> THEN after ELSE locked
    /\ UNCHANGED <<call, lock, config, exit_nodes, exit_nodes_file,
                   shutdown_requested, now, sleep_left, provider, next_id,
                   droplets_cache, tasks, successful_nodes, cycle, hist,
                   attempt_in, attempt_out>>
\* "if <list>: with self.lock:": with an empty list the block is skipped,
\* else the thread goes on when it has acquired the lock
EnterLock(at, list, locked, after) ==
    /\ pc = at
    /\ IF list = <<>>
       THEN /\ pc' = after
            /\ UNCHANGED lock
       ELSE /\ lock = Unlocked
            /\ lock' = MainThread
            /\ pc' = locked
    /\ UNCHANGED <<call, config, exit_nodes, exit_nodes_file, shutdown_requested,
                   now, sleep_left, provider, next_id, droplets_cache, tasks,
                   successful_nodes, cycle, hist, attempt_in, attempt_out>>

\* The body of the with block: self.exit_nodes.remove(...) for each node of
\* the list, or self.exit_nodes.extend(list)
MutateFleet(locked, result, unlocking) ==
    /\ pc = locked
    /\ exit_nodes' = result
    /\ pc' = unlocking
    /\ UNCHANGED <<call, lock, config, exit_nodes_file, shutdown_requested, now,
                   sleep_left, provider, next_id, droplets_cache, tasks,
                   successful_nodes, cycle, hist, attempt_in, attempt_out>>

\* The with block is left: the lock is released
LeaveLock(unlocking, after) ==
    /\ pc = unlocking
    /\ lock' = Unlocked
    /\ pc' = after
    /\ UNCHANGED <<call, config, exit_nodes, exit_nodes_file, shutdown_requested,
                   now, sleep_left, provider, next_id, droplets_cache, tasks,
                   successful_nodes, cycle, hist, attempt_in, attempt_out>>

\* _check_existing_nodes, "if nodes_to_remove_from_tracking:"
CheckRemoval ==
    \/ EnterLock("check_remove", NodesToRemoveFromTracking, "check_locked",
                 AfterCheck)
    \/ MutateFleet("check_locked",
                   RemoveAll(exit_nodes, NodesToRemoveFromTracking),
                   "check_unlock")
    \/ LeaveLock("check_unlock", AfterCheck)

\* _cleanup_failed_nodes, "if nodes_to_permanently_remove:"
CleanupRemoval ==
    \/ EnterLock("cleanup_remove", NodesToPermanentlyRemove,
                 "cleanup_locked", "decide")
    \/ MutateFleet("cleanup_locked",
                   RemoveAll(exit_nodes, NodesToPermanentlyRemove),
                   "cleanup_unlock")
    \/ LeaveLock("cleanup_unlock", "decide")

\* _provision_nodes, "if successful_nodes:"
ExtendFleet ==
    \/ EnterLock("extend", successful_nodes, "extend_locked", AfterProvision)
    \/ MutateFleet("extend_locked", Extend(exit_nodes, successful_nodes),
                   "extend_unlock")
    \/ LeaveLock("extend_unlock", AfterProvision)

NextLock ==
    \/ LoopTop
    \/ CheckLoop
    \/ CheckRemoval
    \/ CleanupLoop
    \/ CleanupRemoval
    \/ DecideStep
    \/ \E i \in 1..DefaultMaxNodes : WorkerStart(i)
    \/ \E i \in 1..DefaultMaxNodes : WorkerFinish(i)
    \/ CollectResults
    \/ ExtendFleet
    \/ SaveStep
    \/ SleepPoll
    \/ \E id \in Ids : DropletDeleted(id)

SpecLock == InitFair /\ [][NextLock]_vars

-----------------------------------------------------------------------------
(* main(): the process stops during the sleep that follows a cycle and is  *)
(* started again: Config.from_env(), TailscaleExitNodeManager.__init__     *)
(* with _init_do_resources() and _load_exit_nodes()                        *)

Token == <<"dop_v1_token">>     \* a value of DO_TOKEN
AuthKey == <<"tskey-auth">>     \* a value of TS_AUTHKEY

\* Variant: the limit is not compared with the target
ConfigErrorNoLimit(c) ==
    IF c.do_token = EmptyStr THEN "DO_TOKEN is required"
    ELSE IF c.ts_authkey = EmptyStr THEN "TS_AUTHKEY is required"
    ELSE "-"
\* Config.__post_init__: the ConfigurationError it raises, or "-"
ConfigError(c) ==
    IF c.do_token = EmptyStr THEN "DO_TOKEN is required"
    ELSE IF c.ts_authkey = EmptyStr THEN "TS_AUTHKEY is required"
    ELSE IF c.target_nodes > c.max_nodes
    THEN "target_nodes cannot exceed max_nodes"
    ELSE "-"

\* Config.from_env(): what the environment variables can give
StartConfigs ==
    [do_token : {EmptyStr, Token}, ts_authkey : {EmptyStr, AuthKey},
     target_nodes : 1..MaxTargetNodes,
     max_nodes : {DefaultTargetNodes, DefaultMaxNodes},
     health_check_interval : {DefaultInterval}]

\* datetime.now(timezone.utc): seconds and microseconds (the loop's clock,
\* now, counts whole seconds)
ClockReadings == {<<0, 0>>, <<7, 123456>>}

\* The entries a fleet holds when run() persists it: all healthy, with the
\* address the check or the provisioning recorded
RestartNodes(id) ==
    {[droplet_id |-> Str(id), name |-> DropletName(0),
      public_ip |-> DropletIp(id), tailscale_ip |-> ip,
      region |-> Region, status |-> "healthy",
      created_at |-> c, last_checked |-> l] :
        ip \in {Addr, EmptyStr}, c \in ClockReadings, l \in ClockReadings}
RestartFleets ==
    {<<>>} \cup {<<n>> : n \in RestartNodes(1)}
           \cup {<<n, m>> : n \in RestartNodes(1), m \in RestartNodes(2)}

\* Entries of a state file that from_dict cannot parse: a timestamp that is
\* no ISO text, a timestamp that is null, a key that is not there
GoodEntry == ToDict(CHOOSE n \in RestartNodes(1) : n.created_at = <<0, 0>>)
BadTimestampEntry == [GoodEntry EXCEPT !.created_at = <<"yesterday">>]
NullTimestampEntry == [GoodEntry EXCEPT !.last_checked = None]
MissingKeyEntry ==
    [k \in DictKeys \ {"last_checked"} |-> GoodEntry[k]]
BadEntries == {BadTimestampEntry, NullTimestampEntry, MissingKeyEntry}

\* The state files a start can find
StartFiles ==
    {MissingFile, CorruptFile, ObjectFile,
     [kind |-> "json", data |-> <<GoodEntry>>]}
    \cup {[kind |-> "json", data |-> <<GoodEntry, bad>>] : bad \in BadEntries}
    \cup {[kind |-> "json", data |-> <<bad, GoodEntry>>] : bad \in BadEntries}

\* run() is about to persist the fleet
InitRestart ==
    /\ lock = Unlocked
    /\ call = NoCall
    /\ config \in {c \in StartConfigs : ConfigError(c) = "-"
                                       /\ c.target_nodes = DefaultTargetNodes
                                       /\ c.max_nodes = DefaultMaxNodes}
    /\ exit_nodes \in RestartFleets
    /\ exit_nodes_file \in StartFiles
    /\ shutdown_requested = FALSE
    /\ pc = "save"
    /\ now = 0
    /\ sleep_left = 0
    /\ provider = TrackedIds(exit_nodes)
    /\ next_id = MaxInitNodes + 1
    /\ droplets_cache = [some |-> TRUE, droplets |-> provider, time |-> 0]
    /\ tasks = <<>>
    /\ successful_nodes = <<>>
    /\ cycle = 1
    /\ hist = [NoHist EXCEPT !.steps = <<"check", "cleanup", "decide">>,
                             !.tracked_at_start = Len(exit_nodes)]
    /\ attempt_in = NoOutcomes
    /\ attempt_out = NoAttempt

\* The process stops in the sleep loop and main() is called in a new one,
\* with the environment of that moment. Until the new process has loaded
\* the state file, exit_nodes is the fleet the stopped one held.
Restart ==
    /\ pc = "sleep"
    /\ pc' = "main"
    /\ config' \in StartConfigs
    /\ shutdown_requested' = FALSE
    /\ droplets_cache' = NoCache
    /\ sleep_left' = 0
    /\ cycle' = 0
    /\ hist' = NoHist
    /\ UNCHANGED <<call, lock, exit_nodes, exit_nodes_file, now, provider, next_id, tasks,
                   successful_nodes, attempt_in, attempt_out>>

\* config = Config.from_env(); a ConfigurationError ends main() with
\* sys.exit(1)
BuildConfig ==
    /\ pc = "main"
    /\ pc' = IF ConfigError(config) = "-" THEN "init" ELSE "config_error"
    /\ hist' = [hist EXCEPT !.steps = Append(@, "config")]
    /\ UNCHANGED <<call, lock, config, exit_nodes, exit_nodes_file, shutdown_requested,
                   now, sleep_left, provider, next_id, droplets_cache, tasks,
                   successful_nodes, cycle, attempt_in, attempt_out>>

\* TailscaleExitNodeManager.__init__ up to _init_do_resources(): the first
\* calls of the provider. get_droplets(force_refresh=True) does not raise;
\* the other calls and the choice of region, image and size may, which
\* ends main() with sys.exit(1)
InitResources ==
    /\ pc = "init"
    /\ \E fetch \in Fetches(provider) :
          droplets_cache' = GetDropletsCache(droplets_cache, TRUE, now, fetch)
    /\ \E ok \in BOOLEAN : pc' = IF ok THEN "load" ELSE "init_error"
    /\ hist' = [hist EXCEPT !.steps = Append(@, "init_do_resources")]
    /\ UNCHANGED <<call, lock, config, exit_nodes, exit_nodes_file, shutdown_requested,
                   now, sleep_left, provider, next_id, tasks,
                   successful_nodes, cycle, attempt_in, attempt_out>>

\* self.exit_nodes = self._load_exit_nodes(); run() is entered
LoadStep ==
    /\ pc = "load"
    /\ exit_nodes' = LoadExitNodes(exit_nodes_file)
    /\ pc' = "top"
    /\ hist' = [hist EXCEPT !.steps = Append(@, "load")]
    /\ UNCHANGED <<call, lock, config, exit_nodes_file, shutdown_requested, now,
                   sleep_left, provider, next_id, droplets_cache, tasks,
                   successful_nodes, cycle, attempt_in, attempt_out>>

NextRestart ==
    \/ SaveStep
    \/ Restart
    \/ BuildConfig
    \/ InitResources
    \/ LoadStep

SpecRestart == InitRestart /\ [][NextRestart]_vars

----------------------------------------------------------------------------
(* The first cycle of run() from an empty fleet under the default Config   *)
(* (target 1, max 3): its one call of _provision_single_node meets every   *)
(* combination of outcomes                                                 *)

InitProvision ==
    /\ lock = Unlocked
    /\ call = NoCall
    /\ attempt_in \in AttemptOutcomes
    /\ attempt_out = NoAttempt
    /\ config = DefaultConfig
    /\ exit_nodes_file = JsonFile(<<>>)
    /\ exit_nodes = LoadExitNodes(exit_nodes_file)
    /\ shutdown_requested = FALSE
    /\ pc = "top"
    /\ now = 0
    /\ sleep_left = 0
    /\ provider = {}
    /\ next_id = 1
    /\ \E fetch \in Fetches(provider) :
          droplets_cache = GetDropletsCache(NoCache, TRUE, 0, fetch)
    /\ tasks = <<>>
    /\ successful_nodes = <<>>
    /\ cycle = 0
    /\ hist = NoHist

\* The call of _provision_single_node meets the outcomes drawn for it
AttemptFinish == \E i \in 1..DefaultMaxNodes : WorkerFinishWith(i, {attempt_in})

NextProvision ==
    \/ LoopTop
    \/ CheckStep
    \/ CleanupStep
    \/ DecideStep
    \/ \E i \in 1..DefaultMaxNodes : WorkerStart(i)
    \/ AttemptFinish
    \/ ProvisionJoin

SpecProvision == InitProvision /\ [][NextProvision]_vars


----------------------------------------------------------------------------
(* One call of _get_node_status(droplet), for every address a droplet can  *)
(* carry and everything the three requests of the prober can meet          *)

NoInfo == [raised |-> "-", keys |-> {}, is_ready |-> FALSE,
           tailscale_ip |-> None]

ProbeCalls ==
    [op : {"_get_node_status"}, ipkind : IpKinds, http : HttpOutcomes,
     done : {FALSE}, raised : {"-"}, status_info : {NoInfo},
     result : {NoStatus}]

\* The variables of the loop are those of a manager that has just started
\* with the default Config and an empty fleet
Idle ==
    /\ lock = Unlocked
    /\ config = DefaultConfig
    /\ exit_nodes_file = JsonFile(<<>>)
    /\ exit_nodes = LoadExitNodes(exit_nodes_file)
    /\ shutdown_requested = FALSE
    /\ now = 0
    /\ sleep_left = 0
    /\ provider = {}
    /\ next_id = 1
    /\ droplets_cache = NoCache
    /\ tasks = <<>>
    /\ successful_nodes = <<>>
    /\ cycle = 0
    /\ hist = NoHist
    /\ attempt_in = NoOutcomes
    /\ attempt_out = NoAttempt

InitProbe ==
    /\ Idle
    /\ pc = "_get_node_status"
    /\ call \in ProbeCalls

\* _get_node_status(droplet) runs to its end: status_info is what
\* _get_status_via_http returned (if it was called and returned), raised is
\* the exception that reached the caller, result what was returned
QueryStatus ==
    /\ call.op = "_get_node_status"
    /\ ~call.done
    /\ LET raised == GetNodeStatusRaised(call.ipkind, call.http)
           status_info == GetStatusViaHttp(call.http)
       IN call' = [call EXCEPT
              !.done = TRUE,
              !.raised = raised,
              !.status_info =
                  IF call.ipkind = "valid" /\ status_info.raised = "none"
                  THEN status_info ELSE NoInfo,
              !.result =
                  IF raised = "none"
                  THEN GetNodeStatus(call.ipkind, call.http) ELSE NoStatus]
    /\ pc' = "returned"
    /\ UNCHANGED <<lock, config, exit_nodes, exit_nodes_file,
                   shutdown_requested, now, sleep_left, provider, next_id,
                   droplets_cache, tasks, successful_nodes, cycle, hist,
                   attempt_in, attempt_out>>

NextProbe == QueryStatus

SpecProbe == InitProbe /\ [][NextProbe]_vars

----------------------------------------------------------------------------
(* CloudInitScriptGenerator: __init__ and generate_tailscale_script.  A     *)
(* text is a sequence of pieces; the braces are pieces of their own, the   *)
(* other pieces hold no brace.                                             *)

\* The three keyword arguments of str.format, which are the field names of
\* the wrapper
FieldNames == {"ts_authkey", "login_server", "setup_script_content"}
\* "{name}" as text
Marker(name) == <<"{", name, "}">>

\* "part in text"
Contains(text, part) ==
    \E i \in 0..(Len(text) - Len(part)) :
        SubSeq(text, i + 1, i + Len(part)) = part

\* str.format(**kwargs): "{{" and "}}" give one brace, "{name}" gives the
\* value of the keyword argument as it is (it is not scanned again), a name
\* that is no keyword argument raises KeyError, a brace that stands alone
\* raises ValueError
RECURSIVE FormatLoop(_, _, _, _)
FormatLoop(t, i, kwargs, out) ==
    IF i > Len(t) THEN [raised |-> "none", text |-> out]
    ELSE IF t[i] = "{"
    THEN IF i + 1 <= Len(t) /\ t[i + 1] = "{"
         THEN FormatLoop(t, i + 2, kwargs, Append(out, "{"))
         ELSE IF i + 2 <= Len(t) /\ t[i + 1] # "}" /\ t[i + 2] = "}"
         THEN IF t[i + 1] \in DOMAIN kwargs
              THEN FormatLoop(t, i + 3, kwargs, out \o kwargs[t[i + 1]])
              ELSE [raised |-> "KeyError", text |-> <<>>]
         ELSE [raised |-> "ValueError", text |-> <<>>]
    ELSE IF t[i] = "}"
    THEN IF i + 1 <= Len(t) /\ t[i + 1] = "}"
         THEN FormatLoop(t, i + 2, kwargs, Append(out, "}"))
         ELSE [raised |-> "ValueError", text |-> <<>>]
    ELSE FormatLoop(t, i + 1, kwargs, Append(out, t[i]))
Format(t, kwargs) == FormatLoop(t, 1, kwargs, <<>>)

\* Variant: the join secret is passed for the control-server URL as well
KwargsSecretTwice(ts_authkey, login_server, setup_script_content) ==
    [ts_authkey |-> ts_authkey, login_server |-> ts_authkey,
     setup_script_content |-> setup_script_content]
\* The keyword arguments generate_tailscale_script passes to format
FormatKwargs(ts_authkey, login_server, setup_script_content) ==
    [ts_authkey |-> ts_authkey, login_server |-> login_server,
     setup_script_content |-> setup_script_content]

\* A file of the shells directory: it exists with a text, or it does not
NoFile == [exists |-> FALSE, text |-> <<>>]
File(text) == [exists |-> TRUE, text |-> text]

\* The two templates of the test suite's shells directory, in pieces
SetupScriptText ==
    <<"#!/bin/bash\n... echo Installing Tailscale...\n",
      "tailscale up --authkey=$", "{", "TS_AUTHKEY", "}",
      " --advertise-exit-node\n">>
WrapperScriptText ==
    <<"#!/bin/bash\n...\nexport TS_AUTHKEY=", "{", "ts_authkey", "}",
      "\nexport LOGIN_SERVER=", "{", "login_server", "}",
      "\ncat > /tmp/tailscale-setup.sh << 'SETUP_SCRIPT_EOF'\n",
      "{", "setup_script_content", "}",
      "\nSETUP_SCRIPT_EOF\n...">>

\* Values of TS_AUTHKEY and LOGIN_SERVER: those of the tests, and values that
\* hold braces
AuthKeys ==
    {AuthKey, <<"special_key_with_symbols!@#$">>,
     <<"key-", "{", "login_server", "}">>, <<"{", "ts_authkey", "}">>}
LoginServers ==
    {<<"https://controlplane.tailscale.com">>,
     <<"https://headscale.example.com:8080">>,
     <<"https://headscale.example.com/", "{", "tenant", "}">>}

NoError == [class |-> "none", names |-> "-"]
\* FileNotFoundError(f"... not found: {path}")
FileNotFound(file_name) == [class |-> "FileNotFoundError", names |-> file_name]
SetupScriptName == "tailscale-exit-node-setup.bash"
WrapperScriptName == "cloud-init-wrapper.bash"

\* CloudInitScriptGenerator.__init__: the exception it raises, if any
GeneratorInit(setup, wrapper) ==
    IF ~setup.exists THEN FileNotFound(SetupScriptName)
    ELSE IF ~wrapper.exists THEN FileNotFound(WrapperScriptName)
    ELSE NoError

\* generate_tailscale_script: Path.read_text() of a file that does not exist
\* raises FileNotFoundError (which names the path); then format
GenerateTailscaleScript(setup, wrapper, ts_authkey, login_server) ==
    IF ~setup.exists
    THEN [raised |-> FileNotFound(SetupScriptName), text |-> <<>>]
    ELSE IF ~wrapper.exists
    THEN [raised |-> FileNotFound(WrapperScriptName), text |-> <<>>]
    ELSE LET r == Format(wrapper.text,
                         FormatKwargs(ts_authkey, login_server, setup.text))
         IN [raised |-> [class |-> r.raised, names |-> "-"], text |-> r.text]

GeneratorCalls ==
    [op : {"CloudInitScriptGenerator"},
     setup : {NoFile, File(SetupScriptText)},
     wrapper : {NoFile, File(WrapperScriptText)},
     ts_authkey : AuthKeys, login_server : LoginServers,
     step : {"new"}, missing_at_init : {{}}, raised : {NoError},
     output : {<<>>}]

InitGenerator ==
    /\ Idle
    /\ pc = "CloudInitScriptGenerator"
    /\ call \in GeneratorCalls

\* The templates that do not exist
Missing(c) ==
    {n \in {SetupScriptName, WrapperScriptName} :
        \/ n = SetupScriptName /\ ~c.setup.exists
        \/ n = WrapperScriptName /\ ~c.wrapper.exists}

\* CloudInitScriptGenerator(shells_path)
Construct ==
    /\ call.op = "CloudInitScriptGenerator"
    /\ call.step = "new"
    /\ LET e == GeneratorInit(call.setup, call.wrapper)
       IN call' = [call EXCEPT
              !.step = IF e = NoError THEN "constructed" ELSE "init_raised",
              !.missing_at_init = Missing(call),
              !.raised = e]
    /\ UNCHANGED <<lock, config, exit_nodes, exit_nodes_file,
                   shutdown_requested, pc, now, sleep_left, provider,
                   next_id, droplets_cache, tasks, successful_nodes, cycle,
                   hist, attempt_in, attempt_out>>

\* A template is removed from the directory while the generator exists
TemplateRemoved(file_name) ==
    /\ call.op = "CloudInitScriptGenerator"
    /\ call.step = "constructed"
    /\ Missing(call) = {}
    /\ call' = IF file_name = SetupScriptName
               THEN [call EXCEPT !.setup = NoFile]
               ELSE [call EXCEPT !.wrapper = NoFile]
    /\ UNCHANGED <<lock, config, exit_nodes, exit_nodes_file,
                   shutdown_requested, pc, now, sleep_left, provider,
                   next_id, droplets_cache, tasks, successful_nodes, cycle,
                   hist, attempt_in, attempt_out>>

\* generator.generate_tailscale_script(ts_authkey, login_server)
Generate ==
    /\ call.op = "CloudInitScriptGenerator"
    /\ call.step = "constructed"
    /\ LET r == GenerateTailscaleScript(call.setup, call.wrapper,
                                        call.ts_authkey, call.login_server)
       IN call' = [call EXCEPT
              !.step = IF r.raised = NoError THEN "returned" ELSE "raised",
              !.raised = r.raised,
              !.output = r.text]
    /\ pc' = "generated"
    /\ UNCHANGED <<lock, config, exit_nodes, exit_nodes_file,
                   shutdown_requested, now, sleep_left, provider, next_id,
                   droplets_cache, tasks, successful_nodes, cycle, hist,
                   attempt_in, attempt_out>>

NextGenerator ==
    \/ Construct
    \/ \E n \in {SetupScriptName, WrapperScriptName} : TemplateRemoved(n)
    \/ Generate

SpecGenerator == InitGenerator /\ [][NextGenerator]_vars

----------------------------------------------------------------------------
(* Properties of the main loop, checked under Spec *)

IdsOf(nodes) == {nodes[i].droplet_id : i \in 1..Len(nodes)}
IsPrefix(s, t) == Len(s) <= Len(t) /\ s = SubSeq(t, 1, Len(s))

\* C1 as stated: when a cycle has finished its provisioning, the number of
\* tracked instances is at most max_nodes, whatever fleet was loaded.
C1_AsStated == pc = "save" => Len(exit_nodes) <= config.max_nodes

\* C1, amended: when a cycle has finished its provisioning, the number of
\* tracked instances is at most the larger of max_nodes and the number
\* tracked when the cycle started; provisioning never takes the count
\* above max_nodes, a fleet loaded above it is not reduced.
C1_TrackedBounded ==
    pc = "save" =>
        Len(exit_nodes) <= Max(config.max_nodes, hist.tracked_at_start)

\* A cycle whose provisioning filled the fleet up to max_nodes
C1_Witness ==
    /\ pc = "save"
    /\ hist.attempts > 0
    /\ hist.tracked_at_start < config.max_nodes
    /\ Len(exit_nodes) = config.max_nodes

\* C4: a tracked instance whose id is absent from the listing the health
\* check got is untracked when the check returns, and the cycle's cleanup
\* neither looks it up nor calls destroy for it.
C4_VanishedUntracked ==
    pc \in {"cleanup", "decide"} =>
        \A id \in IdsOf(hist.before_check) :
            (\A d \in hist.listing : Str(d) # id) =>
                /\ id \notin IdsOf(hist.after_check)
                /\ id \notin IdsOf(exit_nodes)
                /\ id \notin hist.destroys
                /\ id \notin hist.lookups_failed

\* An instance absent from the listing was untracked in a cycle whose
\* cleanup destroyed another one
C4_Witness ==
    /\ pc = "decide"
    /\ \E id \in IdsOf(hist.before_check) : \A d \in hist.listing : Str(d) # id
    /\ hist.destroys # {}

\* C5 as stated: cleanup calls destroy for every tracked instance with
\* status unhealthy or error and untracks it; healthy ones stay tracked.
C5_AsStated ==
    pc = "decide" =>
        \A i \in 1..Len(hist.after_check) :
            LET n == hist.after_check[i]
            IN /\ n.status \in {"unhealthy", "error"} =>
                    /\ n.droplet_id \in hist.destroys
                    /\ n.droplet_id \notin IdsOf(exit_nodes)
               /\ n.status = "healthy" => n \in Range(exit_nodes)

\* C5, amended: cleanup looks up every tracked instance with status
\* unhealthy or error at the provider and calls destroy for it when the
\* lookup succeeded; it untracks every such instance whether the lookup or
\* the destroy succeeded or failed; healthy ones stay tracked.
C5_CleanupUntracks ==
    pc = "decide" =>
        \A i \in 1..Len(hist.after_check) :
            LET n == hist.after_check[i]
            IN /\ n.status \in {"unhealthy", "error"} =>
                    /\ n.droplet_id \in hist.destroys \cup hist.lookups_failed
                    /\ ~(n.droplet_id \in hist.destroys
                         /\ n.droplet_id \in hist.lookups_failed)
                    /\ n.droplet_id \notin IdsOf(exit_nodes)
               /\ n.status = "healthy" => n \in Range(exit_nodes)

\* Cleanup called destroy for an instance with status error, the destroy
\* failed (the droplet still exists) and the instance is untracked, while a
\* healthy one stays
C5_Witness ==
    /\ pc = "decide"
    /\ \E i \in 1..Len(hist.after_check) :
          LET n == hist.after_check[i]
          IN /\ n.status = "error"
             /\ n.droplet_id \in hist.destroys
             /\ DropletId(n) \in provider
             /\ n.droplet_id \notin IdsOf(exit_nodes)
    /\ Len(exit_nodes) > 0

\* C7: in a cycle whose health check leaves exactly target_nodes healthy
\* instances no provisioning attempt is started and no create call is
\* made, and cleanup calls destroy only for instances that check left with
\* status unhealthy or error.
C7_NoCreateAtTarget ==
    (pc \in {"cleanup", "decide", "provision", "save"}
     /\ hist.healthy_after_check = config.target_nodes) =>
        /\ hist.attempts = 0
        /\ hist.creates = 0
        /\ pc # "provision"
        /\ (pc = "decide" =>
               \A id \in hist.destroys :
                   \E i \in 1..Len(hist.after_check) :
                      /\ hist.after_check[i].droplet_id = id
                      /\ hist.after_check[i].status \in {"unhealthy", "error"})

\* A cycle at its target went past the decision to the persist step after
\* a cleanup that had something to destroy
C7_Witness ==
    /\ pc = "save"
    /\ hist.healthy_after_check = config.target_nodes
    /\ hist.tracked_at_start > Len(exit_nodes)
    /\ hist.steps = <<"check", "cleanup", "decide">>

\* C10: the steps of a cycle finish in the order check, cleanup, decision,
\* provisioning (when there is a shortfall), persist, and the sleep follows
\* the persist; no provisioning attempt or create call is made before
\* check, cleanup and decision have finished; the count provisioned is the
\* shortfall of the fleet as cleanup left it.
C10_StepOrder ==
    LET st == hist.steps
        body == IF st # <<>> /\ st[Len(st)] = "error"
                THEN SubSeq(st, 1, Len(st) - 1) ELSE st
    IN /\ \/ IsPrefix(body, <<"check", "cleanup", "decide", "provision", "save">>)
          \/ IsPrefix(body, <<"check", "cleanup", "decide", "save">>)
       /\ (hist.attempts > 0 \/ hist.creates > 0) =>
              IsPrefix(<<"check", "cleanup", "decide">>, st)
       /\ pc = "provision" =>
              /\ st = <<"check", "cleanup", "decide">>
              /\ Len(tasks) = hist.count
              /\ hist.count =
                    config.target_nodes
                    - Cardinality({i \in 1..Len(exit_nodes) :
                                     exit_nodes[i].status = "healthy"})
              /\ \A i \in 1..Len(exit_nodes) :
                    exit_nodes[i].status \notin {"unhealthy", "error"}
       /\ pc = "sleep" => st # <<>> /\ st[Len(st)] = "save"

\* A cycle that went through all five steps and sleeps with a fleet
C10_Witness ==
    /\ pc = "sleep"
    /\ hist.steps = <<"check", "cleanup", "decide", "provision", "save">>
    /\ Len(exit_nodes) > 0
    /\ cycle = MaxCycles


----------------------------------------------------------------------------
(* Properties of _provision_single_node, checked under SpecProvision *)

\* The text of an address without the whitespace around it
NoWhitespace(text) == SelectSeq(text, LAMBDA ch : ch \notin WS)

\* What the first call of _provision_single_node met
CreateSucceeded == attempt_out.create.result = "ok"
WaitSucceeded == attempt_out.wait.result = "ok"
StatusReachable ==
    /\ attempt_in.ipkind = "valid"
    /\ attempt_in.http.setup = "200"
    /\ attempt_in.http.ts_ip \in {"200", "non200"}
    /\ attempt_in.http.ts_status \in {"200", "non200"}

\* C2: when creation and the readiness wait succeed and the status query
\* reports the instance reachable, the attempt returns an instance with
\* status healthy, the overlay address the instance reported (the text of
\* /tailscale-ip.txt without surrounding whitespace) and both timestamps at
\* the current time; the cycle from the empty fleet (target 1, max 3) then
\* ends with exactly that one entry tracked.
C2_ProvisionedHealthy ==
    (attempt_out # NoAttempt /\ CreateSucceeded /\ WaitSucceeded
     /\ StatusReachable) =>
        /\ attempt_out.returned
        /\ attempt_out.node.status = "healthy"
        /\ attempt_out.node.droplet_id = Str(attempt_out.create.droplet)
        /\ attempt_in.http.ts_ip = "200" =>
              attempt_out.node.tailscale_ip = NoWhitespace(attempt_in.http.ts_text)
        /\ attempt_out.node.created_at = now
        /\ attempt_out.node.last_checked = now
        /\ attempt_out.destroy_calls = <<>>
        /\ pc = "save" => exit_nodes = <<attempt_out.node>>

\* The instance answered " 100.64.0.5\n" and the cycle ended with the one
\* entry carrying 100.64.0.5
C2_Witness ==
    /\ pc = "save"
    /\ attempt_in.http.ts_text = <<" ", "100.64.0.5", "\n">>
    /\ attempt_out.returned
    /\ Len(exit_nodes) = 1
    /\ exit_nodes[1].status = "healthy"
    /\ exit_nodes[1].tailscale_ip = Addr

\* C3: when the readiness wait or the status query fails after the droplet
\* was created, one destroy call is made for that droplet, a destroy that
\* fails is not propagated, and the attempt returns no instance: the fleet
\* gains nothing and the cycle goes on to its persist step.
C3_FailureDestroys ==
    (attempt_out # NoAttempt /\ CreateSucceeded
     /\ (~WaitSucceeded \/ ~StatusReachable)) =>
        /\ attempt_out.destroy_calls = <<attempt_out.create.droplet>>
        /\ attempt_out.destroy_raised = (attempt_in.destroy = "fail")
        /\ ~attempt_out.raised
        /\ ~attempt_out.returned
        /\ (attempt_in.destroy = "ok") =>
              attempt_out.create.droplet \notin provider
        /\ pc = "save" => exit_nodes = <<>>

\* The status query found the created droplet not reachable, the destroy
\* call failed, and the cycle reached its persist step with nothing tracked
C3_Witness ==
    /\ pc = "save"
    /\ CreateSucceeded /\ WaitSucceeded /\ ~StatusReachable
    /\ attempt_in.destroy = "fail"
    /\ attempt_out.destroy_calls # <<>>
    /\ attempt_out.create.droplet \in provider
    /\ exit_nodes = <<>>

\* C8 as stated: the readiness wait makes at most 10 probes 30 seconds
\* apart, returns at the first success, and after the 10th failed probe
\* fails with NodeHealthCheckError; the attempt then calls destroy.
C8_AsStated ==
    (attempt_out # NoAttempt /\ CreateSucceeded) =>
        LET w == attempt_out.wait
            ps == attempt_in.probes
        IN /\ w.probes \in 1..ReadyStopAfter
           /\ w.sleeps = [i \in 1..(w.probes - 1) |-> ReadyWaitFixed]
           /\ \A i \in 1..(w.probes - 1) : ps[i] # "200"
           /\ ps[w.probes] = "200" => w.result = "ok"
           /\ (\A i \in 1..ReadyStopAfter : ps[i] \in ProbeFailures) =>
                 /\ w.probes = ReadyStopAfter
                 /\ w.result = "NodeHealthCheckError"
                 /\ attempt_out.destroy_calls = <<attempt_out.create.droplet>>

\* C9: the body of _create_droplet is run at most 3 times, again after
\* every run that raised while fewer than 3 were made; a run that created
\* a droplet without address raises DropletCreationError; a run whose
\* droplet has an address ends the call, which returns that droplet.
C9_CreateRetries ==
    attempt_out # NoAttempt =>
        LET c == attempt_out.create
            cs == attempt_in.create
        IN /\ c.attempts \in 1..CreateStopAfter
           /\ \A i \in 1..(c.attempts - 1) : cs[i] # "ok"
           /\ c.attempts < CreateStopAfter => cs[c.attempts] = "ok"
           /\ \A i \in 1..Len(c.excs) :
                 cs[i] = "no_ip" => c.excs[i] = "DropletCreationError"
           /\ Len(c.excs) =
                 Cardinality({i \in 1..c.attempts : cs[i] # "ok"})
           /\ cs[c.attempts] = "ok" =>
                 /\ c.result = "ok"
                 /\ c.created # <<>>
                 /\ c.droplet = c.created[Len(c.created)]
           /\ cs[c.attempts] # "ok" => c.result # "ok"

\* The third run succeeded after one that left a droplet without address
\* and one that raised another exception
C9_Witness ==
    /\ attempt_out.create.attempts = CreateStopAfter
    /\ attempt_out.create.result = "ok"
    /\ attempt_out.create.excs = <<"DropletCreationError", "Exception">>

-----------------------------------------------------------------------------
(* Properties of the loop's control flow; the ones that say something      *)
(* eventually happens are checked under SpecFair                           *)

\* C11: an exception that escapes a step of a cycle does not end the loop.
\* The handler's only way on is the 60-second pause followed by the loop
\* condition, and from there another cycle starts unless shutdown has been
\* requested (a cycle past MaxCycles is outside the model).
C11_ExceptionCaught ==
    /\ [][(pc = "error" /\ pc' # "error")
            => (pc' = "top" /\ now' = now + ErrorPause)]_vars
    /\ (pc = "error" /\ cycle < MaxCycles)
            ~> (pc = "check" \/ shutdown_requested)

\* The pause after an exception is over, no shutdown is requested and the
\* loop is about to start its next cycle
C11_Witness ==
    /\ pc = "top"
    /\ hist.steps # <<>>
    /\ hist.steps[Len(hist.steps)] = "error"
    /\ now >= ErrorPause
    /\ ~shutdown_requested
    /\ cycle < MaxCycles

\* The steps of a cycle between the loop condition and the sleep
CycleSteps == {"check", "cleanup", "decide", "provision", "save"}

\* C12: once the shutdown flag is set no cycle is started; a cycle in
\* progress goes on to its persist step (which comes after the join of the
\* provisioning workers) unless an exception ends it; the sleep loop sleeps
\* no further second and goes to the loop condition; the loop then ends; and
\* the loop ends only at the loop condition with the flag set.
C12_Shutdown ==
    /\ [][shutdown_requested => cycle' = cycle]_vars
    /\ [][(pc = "sleep" /\ shutdown_requested)
            => (now' = now /\ (pc' = "top" \/ UNCHANGED <<pc, sleep_left>>))]_vars
    /\ [][(pc' = "done" /\ pc # "done")
            => (pc = "top" /\ shutdown_requested)]_vars
    /\ (shutdown_requested /\ pc \in CycleSteps)
            ~> ((pc = "sleep" /\ hist.save # "-" /\ tasks = <<>>)
                \/ pc = "error")
    /\ shutdown_requested ~> (pc = "done")

\* The loop has ended after a cycle that persisted its state, before the
\* interval of the sleep that followed had passed
C12_Witness ==
    /\ pc = "done"
    /\ shutdown_requested
    /\ hist.save = "ok"
    /\ config.health_check_interval = DefaultInterval
    /\ now < DefaultInterval

\* The droplet id is tracked and no longer exists at the provider
Vanished(id) == id \in TrackedIds(exit_nodes) /\ id \notin provider

\* C13: a tracked instance whose droplet no longer exists at the provider
\* when a cycle begins its health check is eventually removed from tracking,
\* unless an exception ends that cycle (whether the listing the check gets
\* is fresh, a cache not yet expired, or what a failed fetch falls back to):
\* the cycle goes on to its cleanup, and when the cleanup has returned no
\* tracked instance is one whose droplet no longer exists.
C13_VanishedRemoved ==
    /\ [][pc' = "decide" => \A id \in Ids : ~Vanished(id)']_vars
    /\ \A id \in Ids :
          (pc = "check" /\ Vanished(id))
              ~> (id \notin TrackedIds(exit_nodes) \/ pc = "error")

\* A cycle whose check was served a listing that still held a droplet that
\* no longer exists has untracked it
C13_Witness ==
    /\ pc = "decide"
    /\ \E i \in 1..Len(hist.before_check) :
          LET id == DropletId(hist.before_check[i])
          IN /\ id \notin provider
             /\ id \in hist.listing
             /\ hist.before_check[i].droplet_id \notin hist.destroys
             /\ id \notin TrackedIds(exit_nodes)

-----------------------------------------------------------------------------
(* The state file, checked under Spec *)

\* _save_exit_nodes() is called in the step, or the file changes in it
Persists ==
    \/ exit_nodes_file' # exit_nodes_file
    \/ (hist'.save # "-" /\ hist'.save # hist.save)

\* C14: the state file is written at most once per cycle and only by the
\* persist step, which comes after the cycle's health check, cleanup and
\* decision and, when the cycle provisions, after every submitted worker has
\* returned; no step of a cycle before the persist step, and no step that
\* ends a cycle with an exception, writes the file.
C14_PersistOnceAtEnd ==
    /\ [][Persists =>
            /\ pc = "save"
            /\ hist.save = "-"
            /\ tasks = <<>>
            /\ hist.attempts = hist.count
            /\ hist.finished = hist.count
            /\ hist.steps \in {<<"check", "cleanup", "decide">>,
                               <<"check", "cleanup", "decide", "provision">>}
            /\ (hist.count > 0 <=> Len(hist.steps) = 4)]_vars
    /\ [][(pc \in CycleSteps /\ pc' # "sleep")
            => (hist'.save = "-" /\ exit_nodes_file' = exit_nodes_file)]_vars

\* The file was written at the end of a cycle that provisioned, with the
\* instance a worker returned in it
C14_Witness ==
    /\ pc = "sleep"
    /\ hist.save = "ok"
    /\ hist.steps = <<"check", "cleanup", "decide", "provision", "save">>
    /\ exit_nodes_file = JsonFile(exit_nodes)
    /\ \E i \in 1..Len(exit_nodes) : DropletId(exit_nodes[i]) > MaxInitNodes

-----------------------------------------------------------------------------
(* Startup and the state file across a restart, checked under SpecRestart  *)

UnusableFile(file) ==
    \/ file \in {MissingFile, CorruptFile, ObjectFile}
    \/ \E i \in 1..Len(file.data) : file.data[i] \in BadEntries

\* C17: when _load_exit_nodes has run, startup has gone on to run() (it has
\* not failed), and if the state file is missing, is not valid JSON or
\* holds an entry that cannot be parsed, the fleet is empty.
C17_BadFileEmptyFleet ==
    (hist.steps # <<>> /\ hist.steps[Len(hist.steps)] = "load") =>
        /\ pc = "top"
        /\ UnusableFile(exit_nodes_file) => exit_nodes = <<>>

\* Startup has finished with an empty fleet on a file whose first entry
\* parses and whose second does not
C17_Witness ==
    /\ pc = "top"
    /\ hist.steps = <<"config", "init_do_resources", "load">>
    /\ exit_nodes_file.kind = "json"
    /\ Len(exit_nodes_file.data) = 2
    /\ Parses(exit_nodes_file.data[1])
    /\ exit_nodes_file.data[2] \in BadEntries
    /\ exit_nodes = <<>>

\* C18: once Config.from_env() has run on an environment with an empty
\* provider token, an empty join secret or a target above the limit, main()
\* has ended with ConfigurationError, and nothing after the configuration
\* step has run: no call of the provider was made.
C18_InvalidConfigFails ==
    (pc \notin {"save", "sleep", "main"}
     /\ (\/ config.do_token = EmptyStr
         \/ config.ts_authkey = EmptyStr
         \/ config.target_nodes > config.max_nodes)) =>
        /\ pc = "config_error"
        /\ hist.steps = <<"config">>
        /\ droplets_cache = NoCache

\* main() has ended on a target above the limit, both secrets given
C18_Witness ==
    /\ pc = "config_error"
    /\ config.do_token = Token
    /\ config.ts_authkey = AuthKey
    /\ config.target_nodes > config.max_nodes

-----------------------------------------------------------------------------
(* Batch provisioning, checked under SpecBatch *)

\* C19: while _provision_nodes(N) runs, N calls are submitted, no more than
\* min(N, 3) of them run at the same time and no more than N are started;
\* when it has returned, exactly N attempts were started and all N have
\* returned, those that failed included, and the fleet has gained exactly
\* the instances the successful ones returned: one entry per success, each a
\* healthy instance of its own whose droplet exists.
C19_BatchProvisioning ==
    /\ pc = "provision" =>
          /\ Len(tasks) = hist.count
          /\ Cardinality(Running) <= Min(hist.count, PoolMaxWorkers)
          /\ hist.attempts = Len(tasks) - Cardinality(Queued)
          /\ hist.finished = hist.attempts - Cardinality(Running)
          /\ Len(successful_nodes) = hist.succeeded
          /\ exit_nodes = <<>>
    /\ (pc = "save" /\ hist.count > 0) =>
          /\ hist.count = config.target_nodes
          /\ hist.attempts = hist.count
          /\ hist.finished = hist.count
          /\ Len(exit_nodes) = hist.succeeded
          /\ \A i \in 1..Len(exit_nodes) :
                /\ exit_nodes[i].status = "healthy"
                /\ DropletId(exit_nodes[i]) \in provider
                /\ \A j \in 1..Len(exit_nodes) :
                      exit_nodes[i].droplet_id = exit_nodes[j].droplet_id
                          => i = j

\* A batch of more calls than the pool has workers has returned; some of
\* its attempts failed and the others' instances are in the fleet
C19_Witness ==
    /\ pc = "save"
    /\ hist.count > PoolMaxWorkers
    /\ hist.finished = hist.count
    /\ hist.succeeded \in 1..(hist.count - 1)
    /\ Len(exit_nodes) = hist.succeeded

-----------------------------------------------------------------------------
(* The fleet lock, checked under SpecLock *)

\* The ids the fleet tracks, in the order of the list
TrackedSeq(nodes) == [i \in 1..Len(nodes) |-> nodes[i].droplet_id]

\* C20: every step that adds an entry to the fleet list or removes one (the
\* append of the provisioned instances, the removal of the vanished ones,
\* the removal of the cleaned-up ones) is a step of the main thread inside
\* one of the three with blocks, taken while it holds the fleet lock, which
\* it still holds afterwards; the lock has one holder at most, and no step
\* of a pool worker changes the list.
C20_MutationsUnderLock ==
    /\ [][TrackedSeq(exit_nodes') # TrackedSeq(exit_nodes) =>
            /\ lock = MainThread
            /\ lock' = MainThread
            /\ pc \in {"check_locked", "cleanup_locked", "extend_locked"}
            /\ Running = {}]_vars
    /\ [](lock \in {Unlocked, MainThread})
    /\ [](lock = MainThread =>
            pc \in {"check_locked", "check_unlock", "cleanup_locked",
                    "cleanup_unlock", "extend_locked", "extend_unlock"})

\* The provisioned instance has been appended and the main thread still
\* holds the lock
C20_Witness ==
    /\ pc = "extend_unlock"
    /\ lock = MainThread
    /\ successful_nodes # <<>>
    /\ Len(exit_nodes) >= Len(successful_nodes)
    /\ exit_nodes[Len(exit_nodes)] = successful_nodes[Len(successful_nodes)]

-----------------------------------------------------------------------------
(* The readiness prober, checked under SpecProbe *)

\* C21: _get_node_status never raises to its caller, and when the droplet has
\* no address or a malformed one the result is absent, when the marker
\* request fails (connection failure or timeout), is answered with a
\* non-success status, or one of the two requests after it fails, the result
\* is not reachable.
C21_StatusQueryNeverRaises ==
    call.done =>
        /\ call.raised = "none"
        /\ call.ipkind \in {"none", "invalid"} => call.result.is_none
        /\ (call.ipkind = "valid"
            /\ (\/ call.http.setup \in {"RequestException", "non200"}
                \/ call.http.ts_ip = "RequestException"
                \/ call.http.ts_status = "RequestException")) =>
              /\ ~call.result.is_none
              /\ ~call.result.is_reachable
        /\ (call.ipkind = "valid" /\ call.http.setup = "Exception") =>
              call.result.is_none
        /\ (call.result.is_none \/ ~call.result.is_reachable) =>
              ~Reachable(call.result)

\* The marker request of a droplet with a well-formed address timed out and
\* the caller got a result that says not reachable
C21_Witness ==
    /\ call.done
    /\ call.ipkind = "valid"
    /\ call.http.setup = "RequestException"
    /\ call.raised = "none"
    /\ ~call.result.is_none
    /\ ~Reachable(call.result)

\* C22 as stated: when the marker request is answered with a success
\* status, the prober reports reachable whatever the overlay-address and
\* status-JSON requests meet (non-success status, timeout, connection
\* failure).
C22_AsStated ==
    (call.done /\ call.ipkind = "valid" /\ call.http.setup = "200") =>
        /\ call.status_info.is_ready
        /\ Reachable(call.result)

-----------------------------------------------------------------------------
(* The boot payload, checked under SpecGenerator *)

\* C23 as stated: for every join secret and control-server URL the payload
\* holds none of the three placeholder markers, and holds the secret, the
\* URL and the setup script exactly as given.
C23_AsStated ==
    call.step = "returned" =>
        /\ \A n \in FieldNames : ~Contains(call.output, Marker(n))
        /\ Contains(call.output, call.ts_authkey)
        /\ Contains(call.output, call.login_server)
        /\ Contains(call.output, call.setup.text)

\* C23, amended: for every join secret and control-server URL, generation
\* over templates that exist does not fail; the payload holds the secret,
\* the URL and the setup script exactly as given, each in place of its
\* placeholder (the payload is the wrapper with every placeholder replaced
\* by its value); and a placeholder marker is found in the payload only
\* where the secret, the URL or the setup script itself holds that text.
C23_PlaceholdersReplaced ==
    /\ call.step = "raised" => call.raised.class = "FileNotFoundError"
    /\ call.step = "returned" =>
          /\ Contains(call.output, call.ts_authkey)
          /\ Contains(call.output, call.login_server)
          /\ Contains(call.output, call.setup.text)
          /\ Len(call.output) =
                Len(call.wrapper.text) - 3 * Len(Marker("-"))
                + Len(call.ts_authkey) + Len(call.login_server)
                + Len(call.setup.text)
          /\ \A n \in FieldNames :
                Contains(call.output, Marker(n)) =>
                    \E v \in {call.ts_authkey, call.login_server,
                               call.setup.text} : Contains(v, Marker(n))

\* A payload was generated for a secret of special characters and a URL
\* that holds braces; it holds both and none of the markers
C23_Witness ==
    /\ call.step = "returned"
    /\ call.ts_authkey = <<"special_key_with_symbols!@#$">>
    /\ Contains(call.login_server, <<"{">>)
    /\ Contains(call.output, call.ts_authkey)
    /\ Contains(call.output, call.login_server)
    /\ \A n \in FieldNames : ~Contains(call.output, Marker(n))

\* C24 as stated: constructing a generator over a directory that lacks a
\* template succeeds, and the call of generate_tailscale_script then raises
\* FileNotFoundError naming a missing file.
C24_AsStated ==
    (call.step # "new" /\ call.missing_at_init # {}) =>
        /\ call.step # "init_raised"
        /\ call.step \in {"returned", "raised"} =>
              /\ call.raised.class = "FileNotFoundError"
              /\ call.raised.names \in call.missing_at_init

-----------------------------------------------------------------------------
(* Orphaned droplets, checked under Spec and SpecProvision *)

\* C25 as stated: an instance that was tracked when the health check began
\* and whose droplet still exists at the provider is not removed from
\* tracking by the check or the cleanup of the cycle unless a destroy call
\* was issued for it, whatever listing the check was served.
C25_AsStated ==
    pc \in {"cleanup", "decide"} =>
        \A i \in 1..Len(hist.before_check) :
            LET n == hist.before_check[i]
            IN (DropletId(n) \in provider
                /\ n.droplet_id \notin IdsOf(exit_nodes)) =>
                   n.droplet_id \in hist.destroys

\* C26 as stated: when a call of _provision_single_node has ended, every
\* droplet a run of the body of _create_droplet created in it is the
\* instance the call returned, or a destroy call was issued for it.
C26_AsStated ==
    attempt_out # NoAttempt =>
        \A i \in 1..Len(attempt_out.create.created) :
            LET id == attempt_out.create.created[i]
            IN \/ /\ attempt_out.returned
                  /\ attempt_out.node.droplet_id = Str(id)
               \/ \E j \in 1..Len(attempt_out.destroy_calls) :
                     attempt_out.destroy_calls[j] = id

-----------------------------------------------------------------------------
(* The health check, checked under Spec *)

\* C27: when the health check has returned, every instance that was tracked
\* and found in the listing is still tracked, with status healthy exactly
\* when no exception was raised, the droplet's status is active and the
\* prober reported it reachable, status error exactly when its check raised,
\* and status unhealthy exactly in the cases left (active and not reachable,
\* or a status other than active); the list the check returned is exactly
\* the tracked instances with status healthy.
C27_HealthClassification ==
    pc = "cleanup" =>
        /\ Len(hist.outs) = Len(hist.before_check)
        /\ exit_nodes = hist.after_check
        /\ \A i \in 1..Len(hist.before_check) :
              LET n == hist.before_check[i]
                  out == hist.outs[i]
                  passed == /\ ~out.raises
                            /\ out.status = "active"
                            /\ Reachable(GetNodeStatus(out.ipkind, out.http))
              IN (\E d \in hist.listing : Str(d) = n.droplet_id) =>
                    \E j \in 1..Len(exit_nodes) :
                       /\ exit_nodes[j].droplet_id = n.droplet_id
                       /\ exit_nodes[j].status = "healthy" <=> passed
                       /\ exit_nodes[j].status = "error" <=> out.raises
                       /\ exit_nodes[j].status = "unhealthy"
                             <=> (~out.raises /\ ~passed)
        /\ hist.healthy_nodes =
              SelectSeq(exit_nodes, LAMBDA n : n.status = "healthy")

\* The check found two instances, one active and reachable, the other with
\* a status that is not active, and returned the first
C27_Witness ==
    /\ pc = "cleanup"
    /\ Len(exit_nodes) = 2
    /\ hist.outs[2].status = "off"
    /\ exit_nodes[1].status = "healthy"
    /\ exit_nodes[2].status = "unhealthy"
    /\ hist.healthy_nodes = <<exit_nodes[1]>>

\* C28: when the check of a tracked instance found in the listing raised,
\* that instance is left with status error and nothing else of it changed,
\* and every other instance, and the list returned apart from that instance,
\* is what the pass gives when that check meets anything but an exception.
C28_ErrorIsolated ==
    pc = "cleanup" =>
        \A i \in 1..Len(hist.before_check) :
            LET n == hist.before_check[i]
                IsOther(m) == m.droplet_id # n.droplet_id
            IN (Listed(hist.listing, n.droplet_id) /\ hist.outs[i].raises) =>
                 /\ \E j \in 1..Len(exit_nodes) :
                       exit_nodes[j] = [n EXCEPT !.status = "error"]
                 /\ \A o \in {c \in CheckOutcomes : ~c.raises} :
                       LET outs == [hist.outs EXCEPT ![i] = o]
                       IN /\ SelectSeq(exit_nodes, IsOther) =
                               SelectSeq(CheckExistingNodes(
                                             hist.before_check, hist.listing,
                                             outs, now), IsOther)
                          /\ SelectSeq(hist.healthy_nodes, IsOther) =
                               SelectSeq(HealthyNodes(
                                             hist.before_check, hist.listing,
                                             outs, now), IsOther)

\* The check of the first of two instances raised; the second one was
\* checked after it, passed, and was returned
C28_Witness ==
    /\ pc = "cleanup"
    /\ Len(exit_nodes) = 2
    /\ hist.outs[1].raises
    /\ exit_nodes[1].status = "error"
    /\ exit_nodes[2].status = "healthy"
    /\ exit_nodes[2].last_checked = now
    /\ hist.healthy_nodes = <<exit_nodes[2]>>

-----------------------------------------------------------------------------
(* What is tracked at the decision and in the state file, checked under Spec *)

\* The entries of a state file
FileEntries(file) == IF file.kind = "json" THEN file.data ELSE <<>>

\* C29: when a cycle computes the shortfall, while it provisions and when
\* it persists, every tracked instance has status healthy (the tracked
\* count is the healthy count), and the state file never holds an entry
\* with another status.
C29_OnlyHealthyTracked ==
    /\ pc \in {"decide", "provision", "save"} =>
          /\ \A i \in 1..Len(exit_nodes) : exit_nodes[i].status = "healthy"
          /\ HealthyCount(exit_nodes) = Len(exit_nodes)
    /\ \A i \in 1..Len(FileEntries(exit_nodes_file)) :
          FileEntries(exit_nodes_file)[i].status = "healthy"

\* The check of the second cycle left one instance healthy and one with
\* status error; at the decision only the healthy one is tracked, and the
\* file the first cycle wrote holds healthy entries only
C29_Witness ==
    /\ pc = "decide"
    /\ cycle = 2
    /\ Len(hist.after_check) = 2
    /\ hist.after_check[1].status = "error"
    /\ hist.after_check[2].status = "healthy"
    /\ exit_nodes = <<hist.after_check[2]>>
    /\ Len(FileEntries(exit_nodes_file)) = 2

\* C30: at the provisioning decision, when the shortfall
\* max(0, target_nodes - healthy count) is positive, tracked count plus
\* shortfall is at most max_nodes; the count _provision_nodes is called with
\* is the shortfall, it is called only with a positive count, and when it
\* has returned as many attempts were started as the shortfall.
C30_ShortfallProvisioned ==
    /\ [](pc = "decide" =>
            LET needed == Max(0, config.target_nodes
                                 - HealthyCount(exit_nodes))
            IN needed > 0 =>
                  Len(exit_nodes) + needed <= config.max_nodes)
    /\ [][(pc = "decide" /\ pc' # "error" /\ pc' # "decide") =>
            /\ hist'.count = Max(0, config.target_nodes
                                    - HealthyCount(exit_nodes))
            /\ Len(tasks') = hist'.count
            /\ pc' = "provision" <=> hist'.count > 0]_vars
    /\ [](pc = "provision" => hist.count > 0 /\ hist.attempts <= hist.count)
    /\ [](pc = "save" => hist.attempts = hist.count)

\* Two instances were tracked under a target and a limit of two, one was
\* cleaned up, and the one attempt that was the shortfall has been made
C30_Witness ==
    /\ pc = "save"
    /\ config.target_nodes = config.max_nodes
    /\ hist.tracked_at_start = config.max_nodes
    /\ hist.count = 1
    /\ hist.attempts = 1

-----------------------------------------------------------------------------
(* The steady state, checked under Spec *)

\* The check of the cycle found every tracked instance in the listing it was
\* given, its droplet active and the instance reachable (at pc = "cleanup")
AllListedActiveReachable ==
    /\ Len(hist.outs) = Len(hist.before_check)
    /\ \A i \in 1..Len(hist.before_check) :
          /\ Listed(hist.listing, hist.before_check[i].droplet_id)
          /\ ~hist.outs[i].raises
          /\ hist.outs[i].status = "active"
          /\ Reachable(GetNodeStatus(hist.outs[i].ipkind, hist.outs[i].http))

\* C31: a cycle in which every provisioning attempt succeeds ends with at
\* least target_nodes healthy instances, and that fleet is what the next
\* cycle starts with; a cycle that starts with at least target_nodes
\* instances and whose check finds every one of them listed, active and
\* reachable issues no destroy call, leaves every instance tracked and starts
\* no provisioning attempt, so no create call is issued.
C31_SteadyState ==
    /\ [][(pc = "save" /\ pc' = "sleep" /\ hist.succeeded = hist.finished)
             => HealthyCount(exit_nodes') >= config.target_nodes]_vars
    /\ [][(pc \in {"sleep", "top"}) => exit_nodes' = exit_nodes]_vars
    /\ [][(/\ pc = "cleanup"
           /\ Len(hist.before_check) >= config.target_nodes
           /\ AllListedActiveReachable)
             => /\ provider' = provider
                /\ next_id' = next_id
                /\ IdsOf(exit_nodes') = IdsOf(hist.before_check)
                /\ ProvisionCount(exit_nodes', config) = 0
                /\ (pc' = "decide" => hist'.destroys = {})]_vars
    /\ [][(pc = "decide" /\ ProvisionCount(exit_nodes, config) = 0)
             => /\ pc' # "provision"
                /\ hist'.attempts = 0
                /\ hist'.creates = 0
                /\ provider' = provider
                /\ (next_id' = next_id)]_vars
    /\ [](pc = "provision" => hist.count > 0)

\* The second cycle, after a first one that provisioned an instance, has
\* found every instance healthy, destroyed none and decided to provision
\* none
C31_Witness ==
    /\ cycle = 2
    /\ pc = "save"
    /\ hist.steps = <<"check", "cleanup", "decide">>
    /\ hist.count = 0
    /\ Len(exit_nodes) >= config.target_nodes
    /\ \E i \in 1..Len(exit_nodes) : exit_nodes[i].created_at > 0
    /\ \A i \in 1..Len(exit_nodes) :
          /\ exit_nodes[i].status = "healthy"
          /\ exit_nodes[i].last_checked = now

-----------------------------------------------------------------------------
(* No scale-down, checked under Spec *)

\* The entries the health check of the cycle left with status healthy (at
\* pc = "cleanup" and pc = "decide")
ClassifiedHealthy ==
    {hist.after_check[i] :
        i \in {j \in 1..Len(hist.after_check) :
                  hist.after_check[j].status = "healthy"}}

\* C32: every instance the health check of the cycle set to healthy is still
\* tracked, unchanged, after the cleanup, and no destroy call was issued for
\* it, whatever target_nodes is; and no later step of the cycle untracks a
\* healthy instance or removes its droplet.
C32_HealthyKept ==
    /\ [](pc \in {"cleanup", "decide"} =>
             \A n \in ClassifiedHealthy :
                /\ \E i \in 1..Len(exit_nodes) : exit_nodes[i] = n
                /\ n.droplet_id \notin hist.destroys)
    /\ [][(pc = "cleanup")
             => \A n \in ClassifiedHealthy :
                   DropletId(n) \in provider => DropletId(n) \in provider']_vars
    /\ [][(pc \in {"decide", "provision", "save"})
             => \A i \in 1..Len(exit_nodes) :
                   exit_nodes[i].status = "healthy" =>
                      /\ i <= Len(exit_nodes')
                      /\ exit_nodes'[i] = exit_nodes[i]
                      /\ DropletId(exit_nodes[i]) \in provider
                            => DropletId(exit_nodes[i]) \in provider']_vars

\* The cleanup has run in a cycle whose check found more healthy instances
\* than target_nodes: all of them are tracked and none was destroyed
C32_Witness ==
    /\ pc = "decide"
    /\ Cardinality(ClassifiedHealthy) > config.target_nodes
    /\ HealthyCount(exit_nodes) > config.target_nodes
    /\ hist.destroys = {}
    /\ \A i \in 1..Len(exit_nodes) : DropletId(exit_nodes[i]) \in provider

-----------------------------------------------------------------------------
(* Identity of the tracked instances, checked under Spec *)

\* C33: no two entries of the fleet name the same droplet, in every state
\* of a run that loaded a state file without duplicate ids and whose provider
\* gives every droplet it creates a new id; the nodes a provisioning pass has
\* collected so far name droplets no tracked entry names.
C33_UniqueIds ==
    /\ \A i, j \in 1..Len(exit_nodes) :
          exit_nodes[i].droplet_id = exit_nodes[j].droplet_id => i = j
    /\ \A i, j \in 1..Len(successful_nodes) :
          successful_nodes[i].droplet_id = successful_nodes[j].droplet_id
              => i = j
    /\ IdsOf(exit_nodes) \cap IdsOf(successful_nodes) = {}

\* The fleet holds an instance loaded from the state file and one the
\* manager provisioned, after the provisioning pass has extended it
C33_Witness ==
    /\ pc = "save"
    /\ "provision" \in Range(hist.steps)
    /\ Len(exit_nodes) >= 2
    /\ \E i, j \in 1..Len(exit_nodes) :
          /\ exit_nodes[i].created_at = 0
          /\ exit_nodes[j].created_at > 0

-----------------------------------------------------------------------------
(* The fields the check and the cleanup write, checked under Spec *)

\* The fields of ExitNodeInfo fixed when the instance is provisioned
Identity(node) ==
    [droplet_id |-> node.droplet_id, name |-> node.name,
     public_ip |-> node.public_ip, region |-> node.region,
     created_at |-> node.created_at]

\* C34: every entry tracked after the health check, and after the cleanup,
\* is an entry that was tracked when the check began with the same id, name,
\* public address, region and creation time (it differs from it in status,
\* overlay address and last_checked at most), and the cleanup leaves every
\* entry it keeps as it was.
C34_IdentityKept ==
    /\ [](pc \in {"cleanup", "decide"} =>
             /\ \A i \in 1..Len(hist.after_check) :
                   \E j \in 1..Len(hist.before_check) :
                      /\ Identity(hist.after_check[i])
                            = Identity(hist.before_check[j])
                      /\ DOMAIN hist.after_check[i]
                            = DOMAIN hist.before_check[j]
             /\ \A i \in 1..Len(exit_nodes) :
                   \E j \in 1..Len(hist.before_check) :
                      Identity(exit_nodes[i]) = Identity(hist.before_check[j]))
    /\ [][(pc = "cleanup")
             => \A i \in 1..Len(exit_nodes') :
                   \E j \in 1..Len(exit_nodes) :
                      exit_nodes'[i] = exit_nodes[j]]_vars

\* After the check and the cleanup of the second cycle an instance the first
\* cycle provisioned is tracked with a new status timestamp and an overlay
\* address the check wrote
C34_Witness ==
    /\ pc = "decide"
    /\ cycle = 2
    /\ \E i \in 1..Len(exit_nodes) :
       \E j \in 1..Len(hist.before_check) :
          /\ Identity(exit_nodes[i]) = Identity(hist.before_check[j])
          /\ exit_nodes[i].created_at > 0
          /\ exit_nodes[i].last_checked = now
          /\ exit_nodes[i].last_checked # hist.before_check[j].last_checked
          /\ exit_nodes[i].tailscale_ip # hist.before_check[j].tailscale_ip

-----------------------------------------------------------------------------
(* The time of the last check, checked under Spec *)

\* C35 as stated: when the health check has returned, every entry it found
\* in the listing (every entry it left tracked) carries the time of this
\* check as last_checked, whatever status the check gave it.
C35_AsStated ==
    pc = "cleanup" =>
        \A i \in 1..Len(hist.after_check) :
            hist.after_check[i].last_checked = now

-----------------------------------------------------------------------------
(* The overlay address, checked under Spec and SpecProvision *)

\* C36 as stated: a tracked instance the health check found active and
\* reachable while the request for its overlay address was answered with a
\* status other than 200 keeps the overlay address it had before the check;
\* and an instance _provision_single_node returns after such an answer has
\* the overlay address "unknown".
C36_AsStated ==
    /\ pc = "cleanup" =>
          \A i \in 1..Len(hist.before_check) :
             (/\ Listed(hist.listing, hist.before_check[i].droplet_id)
              /\ ~hist.outs[i].raises
              /\ hist.outs[i].status = "active"
              /\ Reachable(GetNodeStatus(hist.outs[i].ipkind,
                                         hist.outs[i].http))
              /\ hist.outs[i].http.ts_ip = "non200")
                 => \A j \in 1..Len(exit_nodes) :
                       exit_nodes[j].droplet_id
                             = hist.before_check[i].droplet_id
                          => exit_nodes[j].tailscale_ip
                                = hist.before_check[i].tailscale_ip
    /\ (attempt_out.returned /\ attempt_in.http.ts_ip = "non200")
          => attempt_out.node.tailscale_ip = Unknown

=============================================================================
